---- MODULE Spec2Model ----
(***************************************************************************)
(* Pixel Agents extension host: the provider of one editor window          *)
(* (PixelAgentsViewProvider), its agent roster (agentManager), the         *)
(* activity monitor with its idle-decay timer (activityMonitor) and the    *)
(* layout file shared by all windows.  Every window is one instance; all   *)
(* provider state is indexed by instance.                                  *)
(*                                                                         *)
(* layoutPersistence.ts and constants.ts are not among the sources: the    *)
(* shared file, the asynchronous write, the watcher with its self-write    *)
(* marker and the idle delay follow the specification (sections 4.3, 4.5,  *)
(* 5 and 8).                                                               *)
(***************************************************************************)
EXTENDS Integers, Sequences, FiniteSets, TLC

VARIABLES
  file,           \* content of the shared layout file, NoLayout while absent
  writes,         \* asynchronous writes begun and not yet finished
  notes,          \* per instance: change notifications not yet observed
  watching,       \* per instance: layoutWatcher # null
  watchers,       \* per instance: number of layout watchers created and not disposed
  skipNext,       \* per instance: the watcher's self-write marker
  defaultLayout,  \* per instance: this.defaultLayout
  surface,        \* per instance: the layout the rendering surface holds
  webviewSet,     \* per instance: this.webviewView # undefined
  registrations,  \* per instance: times startActivityMonitoring registered
  agents,         \* per instance: this.agents, id -> AgentState
  nextAgentId,    \* per instance: this.nextAgentId.current
  activeAgentId,  \* per instance: this.activeAgentId.current, 0 for null
  persisted,      \* per instance: workspaceState[WORKSPACE_KEY_AGENTS]
  idleTimer,      \* per instance: module variable idleTimer, 0 for null
  timers,         \* per instance: timeouts scheduled and neither fired nor cleared
  now,            \* ms counted by Tick since the initial state
  out,            \* per instance: what the last step posted or showed
  echoed,         \* history, per instance: the notification observed last was suppressed
  lastDone,       \* history: the write that completed last
  begun,          \* history: number of writes begun so far
  lastMon,        \* history, per instance: status the monitor posted last, per id
  decays,         \* history, per instance: decay callbacks since the last event
  lastEvent,      \* history: instance and target state of the last step's event
  evTimes,        \* history: the times at which qualifying events were observed
  highestId,      \* history, per workspace: the highest id createAgent assigned
                  \* since the persisted roster was last empty
  panel           \* per instance: the state of the layout presets panel

vars == <<file, writes, notes, watching, watchers, skipNext, defaultLayout,
          surface, webviewSet, registrations, agents, nextAgentId,
          activeAgentId, persisted, idleTimer, timers, now, out, echoed,
          lastDone, begun, lastMon, decays, lastEvent, evTimes, highestId, panel>>

layoutVars == <<file, writes, notes, watching, watchers, skipNext, defaultLayout,
                surface, echoed, lastDone, begun>>

agentVars == <<agents, nextAgentId, activeAgentId, persisted, lastMon, highestId>>

timerVars == <<idleTimer, timers, decays, lastEvent, evTimes>>

----------------------------------------------------------------------------
(* Bounds of the model *)

MaxWrites == 2
MaxAgentId == 2
MaxReg == 2
MaxEventTick == 2
MaxPlacements == 3
MaxClicks == 3
TileCols == 3
TileRows == 3
ExtraTicks == 2

\* the windows
Inst == {1, 2}

----------------------------------------------------------------------------
(* Layout records (specification sections 3 and 6).  A field that a JSON   *)
(* record may lack carries a flag beside it.                               *)

CURRENT_VERSION == 1

TileKinds == {"VOID", "WALL", "FLOOR_1", "FLOOR_2", "FLOOR_3", "FLOOR_4",
              "FLOOR_5", "FLOOR_6", "FLOOR_7"}

LayoutRec(v, c, r, isArr, t, hasTc, tc) ==
  [version |-> v, cols |-> c, rows |-> r, tilesIsArray |-> isArr, tiles |-> t,
   hasTileColors |-> hasTc, tileColors |-> tc, furniture |-> <<>>]

\* null / undefined / no file
NoLayout == LayoutRec(-1, 0, 0, FALSE, <<>>, FALSE, <<>>)

LayoutA == LayoutRec(1, 2, 1, TRUE, <<"WALL", "FLOOR_1">>, TRUE, <<0, 0>>)
LayoutB == LayoutRec(1, 1, 2, TRUE, <<"FLOOR_1", "FLOOR_2">>, TRUE, <<0, 0>>)
BundledDefault == LayoutRec(1, 1, 1, TRUE, <<"FLOOR_1">>, TRUE, <<0>>)
\* version 1 and an array of tiles, but not cols*rows of them
BadLen == LayoutRec(1, 2, 2, TRUE, <<"FLOOR_1">>, TRUE, <<0>>)
\* an older record: version 0, no tileColors
OldVersion == LayoutRec(0, 2, 1, TRUE, <<"WALL", "FLOOR_1">>, FALSE, <<>>)
\* version 1 whose tiles field is not an array
NoTiles == LayoutRec(1, 2, 1, FALSE, <<>>, TRUE, <<0, 0>>)

\* what the layout editor of the rendering surface sends with saveLayout
SavePayloads == {LayoutA, LayoutB}
\* what a file picked in the import dialog may hold
ImportRecords == {LayoutA, BadLen, OldVersion, NoTiles}

\* The persisted format of section 6 with the invariant of section 3.
IsSerializedLayout(rec) ==
  /\ rec.version = CURRENT_VERSION
  /\ rec.cols > 0 /\ rec.rows > 0
  /\ rec.tilesIsArray /\ Len(rec.tiles) = rec.cols * rec.rows
  /\ \A k \in 1..Len(rec.tiles) : rec.tiles[k] \in TileKinds
  /\ rec.hasTileColors /\ Len(rec.tileColors) = rec.cols * rec.rows

\* load(record): a current record loads as it is, a version-0 record is
\* migrated forward (tileColors backfilled with neutral entries); a record
\* that cannot be loaded is NoLayout.
Migrate(rec) ==
  IF rec.version = 0
    THEN [rec EXCEPT !.version = CURRENT_VERSION, !.hasTileColors = TRUE,
                     !.tileColors = IF rec.hasTileColors THEN rec.tileColors
                                    ELSE [k \in 1..(rec.cols * rec.rows) |-> 0]]
    ELSE rec

LoadLayout(rec) ==
  IF rec.version \in {0, CURRENT_VERSION} /\ IsSerializedLayout(Migrate(rec))
    THEN Migrate(rec) ELSE NoLayout

\* migrateAndLoadLayout(context, defaultLayout): the stored layout when it
\* loads, else the bundled default
MigrateAndLoadLayout(dflt) ==
  IF file # NoLayout /\ LoadLayout(file) # NoLayout THEN LoadLayout(file) ELSE dflt

----------------------------------------------------------------------------
(* Messages to the rendering surface and notices shown to the user.        *)
(* `by` names the code that posted it; `cause` is the instance whose write *)
(* caused the change notification behind a watcher push (0: none).         *)

Msg(type, layout, id, status, by, cause) ==
  [type |-> type, layout |-> layout, id |-> id, status |-> status,
   by |-> by, cause |-> cause, echo |-> FALSE, sprites |-> <<>>]

LayoutLoaded(layout, by, cause) == Msg("layoutLoaded", layout, 0, "", by, cause)
\* a push by the watcher; `echo`: the notification before it was suppressed
WatcherPush(layout, cause, echo) ==
  [LayoutLoaded(layout, "watcher", cause) EXCEPT !.echo = echo]
AgentStatus(id, status, by) == Msg("agentStatus", NoLayout, id, status, by, 0)
AgentMsg(type, id) == Msg(type, NoLayout, id, "", "provider", 0)
Notice(kind) == Msg(kind, NoLayout, 0, "", "window", 0)

Only(i, msgs) == [j \in Inst |-> IF j = i THEN msgs ELSE <<>>]
NoOut == [j \in Inst |-> <<>>]

----------------------------------------------------------------------------
(* agentManager.ts.  AgentState is modelled by its activityState; the      *)
(* field lastActivityMs is written and never read.  The operators work on  *)
(* the state of one window process:                                        *)
(*   [agents, nextAgentId, activeAgentId, persisted, idleTimer, timers,    *)
(*    posted, lastMon]                                                     *)

NoAgents == [id \in {} |-> "idle"]

Put(f, id, st) == [x \in (DOMAIN f) \cup {id} |-> IF x = id THEN st ELSE f[x]]
Drop(f, id) == [x \in (DOMAIN f) \ {id} |-> f[x]]

\* ids of a roster in ascending order (the order the Map was filled in)
IdsOf(f) ==
  LET In(k) == k \in DOMAIN f
  IN  SelectSeq([k \in 1..(MaxAgentId + 1) |-> k], In)

SetMax(S) == IF S = {} THEN 0 ELSE CHOOSE m \in S : \A x \in S : x <= m

NoStatus == [status |-> "", restored |-> FALSE]

\* persistAgents: the ids of the roster go to the workspace state
PersistAgents(ps) ==
  [ps EXCEPT !.persisted = DOMAIN ps.agents,
             !.highest = IF DOMAIN ps.agents = {} THEN 0 ELSE @]

CreateAgent(ps) ==
  LET id == ps.nextAgentId
      p1 == [ps EXCEPT !.nextAgentId = id + 1,
                       !.agents = Put(ps.agents, id, "idle"),
                       !.activeAgentId = id,
                       !.highest = IF id > @ THEN id ELSE @]
      p2 == PersistAgents(p1)
  IN  [p2 EXCEPT !.posted = Append(@, AgentMsg("agentCreated", id))]

\* a removal that persists the roster whether or not it held the id
RemoveAgentThenPersist(id, ps) ==
  PersistAgents(IF id \in DOMAIN ps.agents THEN [ps EXCEPT !.agents = Drop(ps.agents, id)]
                ELSE ps)

RemoveAgent(id, ps) ==
  IF id \notin DOMAIN ps.agents THEN ps
  ELSE PersistAgents([ps EXCEPT !.agents = Drop(ps.agents, id)])

RestoreAgents(ps) ==
  IF ps.persisted = {} THEN ps
  ELSE
    LET maxId == SetMax(ps.persisted)
        p1 == [ps EXCEPT
                 !.agents = [x \in (DOMAIN ps.agents) \cup ps.persisted |->
                               IF x \in ps.persisted THEN "idle" ELSE ps.agents[x]],
                 !.lastMon = [x \in DOMAIN ps.lastMon |->
                               IF x \in ps.persisted
                                 THEN [ps.lastMon[x] EXCEPT !.restored = TRUE]
                                 ELSE ps.lastMon[x]],
                 !.nextAgentId = IF maxId >= ps.nextAgentId THEN maxId + 1
                                 ELSE ps.nextAgentId]
    IN  PersistAgents(p1)

SendCurrentAgentStatuses(ps) ==
  LET ids == IdsOf(ps.agents)
  IN  [ps EXCEPT !.posted =
         @ \o [k \in 1..Len(ids) |-> AgentStatus(ids[k], ps.agents[ids[k]], "manager")]]

SendExistingAgents(ps) ==
  SendCurrentAgentStatuses(
    [ps EXCEPT !.posted = Append(@, AgentMsg("existingAgents", 0))])

----------------------------------------------------------------------------
(* activityMonitor.ts *)

\* constants.ts is not among the sources; section 8 gives the idle window
TEXT_IDLE_DELAY_MS == 5000
SELECTION_LINE_THRESHOLD == 10

\* an update that posts whether or not the state differs
UpdateSingleAgentAlways(id, state, ps) ==
  [ps EXCEPT !.agents[id] = state,
             !.posted = Append(@, AgentStatus(id, state, "monitor")),
             !.lastMon[id] = [status |-> state, restored |-> FALSE]]

UpdateSingleAgent(id, state, ps) ==
  IF ps.agents[id] # state
    THEN [ps EXCEPT !.agents[id] = state,
                    !.posted = Append(@, AgentStatus(id, state, "monitor")),
                    !.lastMon[id] = [status |-> state, restored |-> FALSE]]
    ELSE ps

RECURSIVE UpdateAll(_, _, _)
UpdateAll(ids, state, ps) ==
  IF ids = <<>> THEN ps
  ELSE UpdateAll(Tail(ids), state, UpdateSingleAgent(Head(ids), state, ps))

\* a broadcast that reaches the first agent only
SetAgentStateFirstOnly(state, ps) ==
  IF IdsOf(ps.agents) = <<>> THEN ps
  ELSE UpdateSingleAgent(Head(IdsOf(ps.agents)), state, ps)

\* Broadcast to all agents
SetAgentState(state, ps) == UpdateAll(IdsOf(ps.agents), state, ps)

FreshTimer(T) == CHOOSE n \in 1..(Cardinality(T) + 1) : \A t \in T : t.id # n

\* clearTimeout that cancels nothing
ClearTimeoutNothing(h, T) == T

\* clearTimeout(h)
ClearTimeout(h, T) == {t \in T : t.id # h}

\* a reset that schedules without cancelling the pending timeout
ResetIdleTimerNoCancel(ps) ==
  LET h == FreshTimer(ps.timers)
  IN  [ps EXCEPT !.timers = ps.timers \cup {[id |-> h, left |-> TEXT_IDLE_DELAY_MS]},
                 !.idleTimer = h]

ResetIdleTimer(ps) ==
  LET cleared == IF ps.idleTimer # 0 THEN ClearTimeout(ps.idleTimer, ps.timers)
                 ELSE ps.timers
      h == FreshTimer(cleared)
  IN  [ps EXCEPT !.timers = cleared \cup {[id |-> h, left |-> TEXT_IDLE_DELAY_MS]},
                 !.idleTimer = h]

\* one registered listener handling a qualifying event
Listener(state, ps) == ResetIdleTimer(SetAgentState(state, ps))

\* startActivityMonitoring registers its listeners on every call and never
\* disposes them: an event runs as many listeners as there were calls
RECURSIVE Listeners(_, _, _)
Listeners(n, state, ps) ==
  IF n = 0 THEN ps ELSE Listeners(n - 1, state, Listener(state, ps))

\* The editor events.  A text change carries the lengths of its inserted
\* texts, a selection change its selections as <<start line, end line>>.
\* a sum that counts no line
SumSpanZero(sels) == 0

RECURSIVE SumSpan(_)
SumSpan(sels) ==
  IF sels = <<>> THEN 0 ELSE (Head(sels)[2] - Head(sels)[1]) + SumSpan(Tail(sels))

TextChange(lens) == [kind |-> "textDocument", lens |-> lens, sels |-> <<>>, term |-> FALSE]
TabsChange == [kind |-> "tabs", lens |-> <<>>, sels |-> <<>>, term |-> FALSE]
TerminalChange(t) == [kind |-> "activeTerminal", lens |-> <<>>, sels |-> <<>>, term |-> t]
SelectionChange(sels) == [kind |-> "selection", lens |-> <<>>, sels |-> sels, term |-> FALSE]
EditorChange == [kind |-> "activeEditor", lens |-> <<>>, sels |-> <<>>, term |-> FALSE]
\* output or activity in a terminal: startActivityMonitoring registers no
\* listener for it
TerminalOutput == [kind |-> "terminalOutput", lens |-> <<>>, sels |-> <<>>, term |-> TRUE]

Events ==
  {TextChange(l) : l \in {<<>>, <<0>>, <<3>>, <<0, 1>>}}
    \cup {TabsChange, EditorChange, TerminalOutput}
    \cup {TerminalChange(t) : t \in BOOLEAN}
    \cup {SelectionChange(s) : s \in {<<>>, <<<<0, 10>>>>, <<<<0, 11>>>>,
                                      <<<<0, 6>>, <<10, 15>>>>}}

\* a classification that takes every non-empty change set for typing and
\* every change of the active terminal for a terminal
EventStateAnyChange(e) ==
  CASE e.kind = "textDocument" -> IF Len(e.lens) = 0 THEN "" ELSE "typing"
    [] e.kind = "tabs" -> "thinking"
    [] e.kind = "activeTerminal" -> "terminal"
    [] e.kind = "selection" ->
         IF Len(e.sels) > 0 /\ SumSpan(e.sels) > SELECTION_LINE_THRESHOLD
           THEN "thinking" ELSE ""
    [] e.kind = "activeEditor" -> "thinking"
    [] e.kind = "terminalOutput" -> ""

\* the state a listener sets for an event, "" when the event does not qualify
EventState(e) ==
  CASE e.kind = "textDocument" ->
         IF Len(e.lens) = 0 THEN ""
         ELSE IF \E k \in 1..Len(e.lens) : e.lens[k] > 0 THEN "typing" ELSE ""
    [] e.kind = "tabs" -> "thinking"
    [] e.kind = "activeTerminal" -> IF e.term THEN "terminal" ELSE ""
    [] e.kind = "selection" ->
         IF Len(e.sels) > 0 /\ SumSpan(e.sels) > SELECTION_LINE_THRESHOLD
           THEN "thinking" ELSE ""
    [] e.kind = "activeEditor" -> "thinking"
    [] e.kind = "terminalOutput" -> ""

----------------------------------------------------------------------------
(* The state of the window process of instance i, and its write-back *)

NoEvent == [inst |-> 0, state |-> ""]

PS(i) ==
  [agents |-> agents[i], nextAgentId |-> nextAgentId[i],
   activeAgentId |-> activeAgentId[i], persisted |-> persisted[i],
   idleTimer |-> idleTimer[i], timers |-> timers[i], lastMon |-> lastMon[i],
   highest |-> highestId[i], posted |-> <<>>]

CommitAgents(i, ps) ==
  /\ agents' = [agents EXCEPT ![i] = ps.agents]
  /\ nextAgentId' = [nextAgentId EXCEPT ![i] = ps.nextAgentId]
  /\ activeAgentId' = [activeAgentId EXCEPT ![i] = ps.activeAgentId]
  /\ persisted' = [persisted EXCEPT ![i] = ps.persisted]
  /\ lastMon' = [lastMon EXCEPT ![i] = ps.lastMon]
  /\ highestId' = [highestId EXCEPT ![i] = ps.highest]

CommitTimers(i, ps) ==
  /\ idleTimer' = [idleTimer EXCEPT ![i] = ps.idleTimer]
  /\ timers' = [timers EXCEPT ![i] = ps.timers]

\* the step observed no editor event
Plain == lastEvent' = NoEvent /\ UNCHANGED panel

----------------------------------------------------------------------------
(* layoutPersistence.ts, after sections 4.5 and 5 of the specification *)

\* layoutWatcher?.markOwnWrite(): the marker as it is after the call
MarkOwnWrite(i) == IF watching[i] THEN [skipNext EXCEPT ![i] = TRUE] ELSE skipNext

\* writeLayoutToFile(layout) begins an asynchronous write.  `marked` and
\* `watched` record the marker and the watcher of the writer at that moment,
\* `raced` whether a write of another instance was in flight beside it; `seq`
\* tells apart the writes in flight.
WriteRec(i, layout, skip) ==
  [by |-> i, layout |-> layout, marked |-> skip[i], watched |-> watching[i],
   raced |-> \E x \in writes : x.by # i, seq |-> begun + 1]

WriteLayoutToFile(i, layout, skip) ==
  {IF x.by # i THEN [x EXCEPT !.raced = TRUE] ELSE x : x \in writes}
    \cup {WriteRec(i, layout, skip)}

\* the watcher on a change notification: the marker suppresses exactly one
\* callback; otherwise the change is external
SuppressChange(i) == skipNext[i]

\* startLayoutWatcher() without its first line: a watcher is created whether
\* or not the provider holds one
StartLayoutWatcherAgain(i) ==
  /\ watching' = [watching EXCEPT ![i] = TRUE]
  /\ watchers' = [watchers EXCEPT ![i] = @ + 1]
  /\ skipNext' = [skipNext EXCEPT ![i] = FALSE]
  /\ UNCHANGED <<notes, echoed>>

\* startLayoutWatcher()
StartLayoutWatcher(i) ==
  IF watching[i]
    THEN UNCHANGED <<watching, watchers, skipNext, notes, echoed>>
    ELSE /\ watching' = [watching EXCEPT ![i] = TRUE]
         /\ watchers' = [watchers EXCEPT ![i] = @ + 1]
         /\ skipNext' = [skipNext EXCEPT ![i] = FALSE]
         /\ notes' = [notes EXCEPT ![i] = <<>>]
         /\ echoed' = [echoed EXCEPT ![i] = FALSE]

\* an asynchronous write completes: it replaces the file, and every running
\* watcher, the writer's too, is notified of the change
WriteCompletes(w) ==
  /\ w \in writes
  /\ file' = w.layout
  /\ writes' = writes \ {w}
  /\ notes' = [j \in Inst |-> notes[j] \o [k \in 1..watchers[j] |-> w.by]]
  /\ lastDone' = [layout |-> w.layout, by |-> w.by, raced |-> w.raced]
  /\ out' = NoOut /\ Plain
  /\ UNCHANGED <<watching, watchers, skipNext, defaultLayout, surface, echoed, begun,
                 webviewSet, registrations, agentVars, idleTimer, timers,
                 decays, evTimes, now>>

\* an asynchronous write fails (the store is unwritable): nothing changes and
\* nobody is notified
WriteFails(w) ==
  /\ w \in writes
  /\ writes' = writes \ {w}
  /\ out' = NoOut /\ Plain
  /\ UNCHANGED <<file, notes, watching, watchers, skipNext, defaultLayout, surface,
                 echoed, lastDone, begun, webviewSet, registrations, agentVars,
                 idleTimer, timers, decays, evTimes, now>>

\* a callback that posts the layout twice
OnExternalChangeTwice(layout, cause, echo) ==
  <<WatcherPush(layout, cause, echo), WatcherPush(layout, cause, echo)>>

\* a callback that posts nothing
OnExternalChangeSilent(layout, cause, echo) == <<>>

\* the callback startLayoutWatcher() hands to watchLayoutFile: what it posts
OnExternalChange(layout, cause, echo) == <<WatcherPush(layout, cause, echo)>>

\* the layout the rendering surface holds after it received msgs
RECURSIVE Rendered(_, _)
Rendered(cur, msgs) ==
  IF msgs = <<>> THEN cur
  ELSE Rendered(IF Head(msgs).type = "layoutLoaded" THEN Head(msgs).layout ELSE cur,
                Tail(msgs))

\* instance i observes its next change notification
ChangeNotification(i) ==
  /\ watching[i] /\ notes[i] # <<>>
  /\ IF SuppressChange(i)
       THEN /\ skipNext' = [skipNext EXCEPT ![i] = FALSE]
            /\ out' = NoOut
            /\ echoed' = [echoed EXCEPT ![i] = TRUE]
            /\ UNCHANGED surface
       ELSE \* the callback of startLayoutWatcher
            /\ out' = Only(i, OnExternalChange(file, Head(notes[i]), echoed[i]))
            /\ surface' = [surface EXCEPT ![i] =
                             Rendered(@, OnExternalChange(file, Head(notes[i]),
                                                          echoed[i]))]
            /\ echoed' = [echoed EXCEPT ![i] = FALSE]
            /\ UNCHANGED skipNext
  /\ notes' = [notes EXCEPT ![i] = Tail(notes[i])]
  /\ Plain
  /\ UNCHANGED <<file, writes, watching, watchers, defaultLayout, lastDone, begun,
                 webviewSet,
                 registrations, agentVars, idleTimer, timers, decays, evTimes, now>>

----------------------------------------------------------------------------
(* PixelAgentsViewProvider.ts *)

\* resolveWebviewView(webviewView)
ResolveWebviewView(i) ==
  /\ registrations[i] < MaxReg
  /\ webviewSet' = [webviewSet EXCEPT ![i] = TRUE]
  /\ registrations' = [registrations EXCEPT ![i] = @ + 1]
  /\ out' = NoOut /\ Plain
  /\ UNCHANGED <<layoutVars, agentVars, idleTimer, timers, decays, evTimes, now>>

\* message addAgent
AddAgent(i) ==
  /\ webviewSet[i]
  /\ nextAgentId[i] <= MaxAgentId
  /\ LET ps == CreateAgent(PS(i))
     IN  CommitAgents(i, ps) /\ out' = Only(i, ps.posted)
  /\ Plain
  /\ UNCHANGED <<file, writes, notes, watching, watchers, skipNext, defaultLayout,
                 surface, echoed, lastDone, begun, webviewSet, registrations,
                 idleTimer, timers, decays, evTimes, now>>

\* message closeAgent{id}
CloseAgent(i, id) ==
  /\ webviewSet[i]
  /\ LET ps == RemoveAgent(id, PS(i))
     IN  CommitAgents(i, ps)
  /\ out' = Only(i, <<AgentMsg("agentClosed", id)>>)
  /\ Plain
  /\ UNCHANGED <<file, writes, notes, watching, watchers, skipNext, defaultLayout,
                 surface, echoed, lastDone, begun, webviewSet, registrations,
                 idleTimer, timers, decays, evTimes, now>>

\* a saveLayout handler that begins the write before it sets the marker
SaveLayoutWriteFirst(i, layout) ==
  /\ webviewSet[i]
  /\ begun < MaxWrites
  /\ writes' = WriteLayoutToFile(i, layout, skipNext)
  /\ skipNext' = MarkOwnWrite(i)
  /\ begun' = begun + 1
  /\ surface' = [surface EXCEPT ![i] = layout]
  /\ out' = NoOut /\ Plain
  /\ UNCHANGED <<file, notes, watching, watchers, defaultLayout, echoed, lastDone,
                 webviewSet, registrations, agentVars, idleTimer, timers, decays,
                 evTimes, now>>

\* message saveLayout{layout}
SaveLayout(i, layout) ==
  /\ webviewSet[i]
  /\ begun < MaxWrites
  /\ skipNext' = MarkOwnWrite(i)
  /\ writes' = WriteLayoutToFile(i, layout, MarkOwnWrite(i))
  /\ begun' = begun + 1
  /\ surface' = [surface EXCEPT ![i] = layout]
  /\ out' = NoOut /\ Plain
  /\ UNCHANGED <<file, notes, watching, watchers, defaultLayout, echoed, lastDone,
                 webviewSet, registrations, agentVars, idleTimer, timers, decays,
                 evTimes, now>>

\* sendLayout(context, webview, defaultLayout) and startLayoutWatcher(), the
\* end of the load sequence of webviewReady
SendLayoutAndWatch(i, dflt) ==
  /\ surface' = [surface EXCEPT ![i] = MigrateAndLoadLayout(dflt)]
  /\ StartLayoutWatcher(i)

\* The assets the load sequence of webviewReady finds.  root: an assets
\* root exists (the bundled dist/assets directory or a workspace folder);
\* for each asset: "ok", "missing" (the file is not there) or "malformed"
\* (reading or decoding it throws).
AssetConds == {"ok", "missing", "malformed"}
NoAssetsRoot ==
  [root |-> FALSE, dflt |-> "missing", chars |-> "missing", floors |-> "missing",
   walls |-> "missing", furniture |-> "missing"]
AssetNames == {"dflt", "chars", "floors", "walls", "furniture"}
\* every set of failing assets, the failing ones all missing or all malformed
AssetSets ==
  {NoAssetsRoot} \cup
    {a \in [root : {TRUE}, dflt : AssetConds, chars : AssetConds,
            floors : AssetConds, walls : AssetConds, furniture : AssetConds] :
       \E how \in AssetConds \ {"ok"} : \A n \in AssetNames : a[n] \in {"ok", how}}

\* the body of a loader: null when the file does not exist, an exception
\* when it cannot be read or decoded, the loaded data otherwise
LoaderBody(cond) ==
  CASE cond = "missing" -> "null"
    [] cond = "malformed" -> "throw"
    [] cond = "ok" -> "loaded"

\* the try/catch every loader wraps its body in
CatchReturnsNull(outcome) == IF outcome = "throw" THEN "null" ELSE outcome

\* a loadFloorTiles that lets the exception of its body escape
LoadFloorTilesUncaught(cond) == LoaderBody(cond)

LoadCharacterSprites(cond) == CatchReturnsNull(LoaderBody(cond))
LoadFloorTiles(cond) == CatchReturnsNull(LoaderBody(cond))
LoadWallTiles(cond) == CatchReturnsNull(LoaderBody(cond))
LoadFurnitureAssets(cond) == CatchReturnsNull(LoaderBody(cond))

\* loadDefaultLayout: the parsed record, or null
LoadDefaultLayout(cond) ==
  IF CatchReturnsNull(LoaderBody(cond)) = "loaded" THEN BundledDefault ELSE NoLayout

\* The wall sheet walls.png: WALL_GRID_COLS columns of pieces of
\* WALL_PIECE_WIDTH x WALL_PIECE_HEIGHT pixels, WALL_BITMASK_COUNT pieces.
WALL_PIECE_WIDTH == 16
WALL_PIECE_HEIGHT == 32
WALL_GRID_COLS == 4
WALL_BITMASK_COUNT == 16

\* an origin that takes the column of the piece for its row
WallPieceOriginTransposed(mask) ==
  [ox |-> (mask \div WALL_GRID_COLS) * WALL_PIECE_WIDTH,
   oy |-> (mask % WALL_GRID_COLS) * WALL_PIECE_HEIGHT]

\* the pixel (ox, oy) of the sheet at which the piece of a bitmask begins
WallPieceOrigin(mask) ==
  [ox |-> (mask % WALL_GRID_COLS) * WALL_PIECE_WIDTH,
   oy |-> (mask \div WALL_GRID_COLS) * WALL_PIECE_HEIGHT]

\* the sprites loadWallTiles returns for a valid sheet, in the order it
\* pushes them; a sprite is named by the origin of the pixels it was cut from
WallSprites == [k \in 1..WALL_BITMASK_COUNT |-> WallPieceOrigin(k - 1)]

\* the message of an asset sender; of the payloads only the sprites of
\* wallTilesLoaded are modelled
AssetMsg(type) ==
  [Msg(type, NoLayout, 0, "", "provider", 0)
     EXCEPT !.sprites = IF type = "wallTilesLoaded" THEN WallSprites ELSE <<>>]

\* the awaited loaders in the order of the sequence, each with the message
\* its sender posts
LoadSteps(assets) ==
  << <<LoadCharacterSprites(assets.chars), "characterSpritesLoaded">>,
     <<LoadFloorTiles(assets.floors), "floorTilesLoaded">>,
     <<LoadWallTiles(assets.walls), "wallTilesLoaded">>,
     <<LoadFurnitureAssets(assets.furniture), "furnitureAssetsLoaded">> >>

\* the try block of the sequence: a result that is not null is sent; an
\* exception leaves the block
RECURSIVE SendLoaded(_)
SendLoaded(steps) ==
  IF steps = <<>> THEN <<>>
  ELSE LET result == Head(steps)[1]
       IN  IF result = "throw" THEN <<>>
           ELSE (IF result = "loaded" THEN <<AssetMsg(Head(steps)[2])>> ELSE <<>>)
                  \o SendLoaded(Tail(steps))

\* message webviewReady.  The load sequence has no suspension point without
\* an assets root; with one, it is suspended at its first await, the handler
\* ends with sendExistingAgents, and the continuations run to the end of the
\* sequence before the process handles any other event.
WebviewReady(i, assets) ==
  /\ webviewSet[i]
  /\ LET ps == RestoreAgents(PS(i))
         dflt == IF assets.root THEN LoadDefaultLayout(assets.dflt)
                 ELSE defaultLayout[i]
         settings == <<Msg("settingsLoaded", NoLayout, 0, "", "provider", 0)>>
         existing == SendExistingAgents(ps).posted
         layout == <<LayoutLoaded(MigrateAndLoadLayout(dflt), "sendLayout", 0)>>
     IN  /\ CommitAgents(i, ps)
         /\ defaultLayout' = [defaultLayout EXCEPT ![i] = dflt]
         /\ SendLayoutAndWatch(i, dflt)
         /\ out' = Only(i, IF assets.root
                             THEN settings \o existing
                                    \o SendLoaded(LoadSteps(assets)) \o layout
                             ELSE settings \o layout \o existing)
  /\ Plain
  /\ UNCHANGED <<file, writes, lastDone, begun, webviewSet, registrations, idleTimer, timers,
                 decays, evTimes, now>>

\* message importLayout, after the open dialog.  pick.kind: "cancel",
\* "unreadable" (the file cannot be read or parsed), "record".
ImportPicks ==
  {[kind |-> "cancel", rec |-> NoLayout], [kind |-> "unreadable", rec |-> NoLayout]}
    \cup {[kind |-> "record", rec |-> r] : r \in ImportRecords}

\* a check of the tiles field alone
ImportAcceptsAnyVersion(rec) == rec.tilesIsArray

ImportAccepts(rec) == rec.version = 1 /\ rec.tilesIsArray

ImportLayout(i, pick) ==
  /\ webviewSet[i]
  /\ (pick.kind = "record" /\ ImportAccepts(pick.rec)) => begun < MaxWrites
  /\ IF pick.kind = "record" /\ ImportAccepts(pick.rec)
       THEN /\ skipNext' = MarkOwnWrite(i)
            /\ writes' = WriteLayoutToFile(i, pick.rec, MarkOwnWrite(i))
            /\ begun' = begun + 1
            /\ surface' = [surface EXCEPT ![i] = pick.rec]
            /\ out' = Only(i, <<LayoutLoaded(pick.rec, "import", 0),
                                Notice("showInformationMessage")>>)
       ELSE /\ out' = Only(i, IF pick.kind = "cancel" THEN <<>>
                              ELSE <<Notice("showErrorMessage")>>)
            /\ UNCHANGED <<skipNext, writes, surface, begun>>
  /\ Plain
  /\ UNCHANGED <<file, notes, watching, watchers, defaultLayout, echoed, lastDone,
                 webviewSet, registrations, agentVars, idleTimer, timers, decays,
                 evTimes, now>>

\* message resetToDefaultLayout
ResetToDefaultLayout(i) ==
  /\ webviewSet[i]
  /\ defaultLayout[i] # NoLayout => begun < MaxWrites
  /\ IF defaultLayout[i] # NoLayout
       THEN /\ skipNext' = MarkOwnWrite(i)
            /\ writes' = WriteLayoutToFile(i, defaultLayout[i], MarkOwnWrite(i))
            /\ begun' = begun + 1
            /\ surface' = [surface EXCEPT ![i] = defaultLayout[i]]
            /\ out' = Only(i, <<LayoutLoaded(defaultLayout[i], "reset", 0),
                                Notice("showInformationMessage")>>)
       ELSE /\ out' = Only(i, <<Notice("showErrorMessage")>>)
            /\ UNCHANGED <<skipNext, writes, surface, begun>>
  /\ Plain
  /\ UNCHANGED <<file, notes, watching, watchers, defaultLayout, echoed, lastDone,
                 webviewSet, registrations, agentVars, idleTimer, timers, decays,
                 evTimes, now>>

\* dispose(): the watcher is disposed and every agent removed, each removal
\* persisting the roster
RECURSIVE RemoveAll(_, _)
RemoveAll(ids, ps) ==
  IF ids = <<>> THEN ps ELSE RemoveAll(Tail(ids), RemoveAgent(Head(ids), ps))

Dispose(i) ==
  /\ watching' = [watching EXCEPT ![i] = FALSE]
  /\ watchers' = [watchers EXCEPT ![i] = IF watching[i] THEN @ - 1 ELSE @]
  /\ skipNext' = [skipNext EXCEPT ![i] = FALSE]
  /\ notes' = [notes EXCEPT ![i] = <<>>]
  /\ echoed' = [echoed EXCEPT ![i] = FALSE]
  /\ CommitAgents(i, RemoveAll(IdsOf(agents[i]), PS(i)))
  /\ out' = NoOut /\ Plain
  /\ UNCHANGED <<file, writes, defaultLayout, surface, lastDone, begun,
                 webviewSet,
                 registrations, idleTimer, timers, decays, evTimes, now>>

\* The window is reloaded: the process of instance i ends and a new
\* provider is constructed over the same workspace state.  The fields take
\* their initialisers, the module state of the monitor is new, the timeouts
\* of the old process are gone and the view is a new one.
NewProvider(i) ==
  /\ agents' = [agents EXCEPT ![i] = NoAgents]
  /\ nextAgentId' = [nextAgentId EXCEPT ![i] = 1]
  /\ activeAgentId' = [activeAgentId EXCEPT ![i] = 0]
  /\ defaultLayout' = [defaultLayout EXCEPT ![i] = NoLayout]
  /\ watching' = [watching EXCEPT ![i] = FALSE]
  /\ watchers' = [watchers EXCEPT ![i] = 0]
  /\ skipNext' = [skipNext EXCEPT ![i] = FALSE]
  /\ notes' = [notes EXCEPT ![i] = <<>>]
  /\ echoed' = [echoed EXCEPT ![i] = FALSE]
  /\ surface' = [surface EXCEPT ![i] = NoLayout]
  /\ webviewSet' = [webviewSet EXCEPT ![i] = FALSE]
  /\ registrations' = [registrations EXCEPT ![i] = 0]
  /\ idleTimer' = [idleTimer EXCEPT ![i] = 0]
  /\ timers' = [timers EXCEPT ![i] = {}]
  /\ lastMon' = [lastMon EXCEPT ![i] = [id \in 1..(MaxAgentId + 1) |-> NoStatus]]
  /\ decays' = [decays EXCEPT ![i] = 0]
  /\ out' = NoOut /\ Plain
  /\ UNCHANGED <<file, writes, lastDone, begun, persisted, highestId, evTimes, now>>

----------------------------------------------------------------------------
(* Editor events, the idle-decay timer and time *)

TickMs == 100
MaxTime == TEXT_IDLE_DELAY_MS + (MaxEventTick + ExtraTicks) * TickMs

\* an editor event reaches the listeners registered in the process of i
ActivityEvent(i, e) ==
  /\ registrations[i] > 0
  /\ UNCHANGED panel
  /\ IF EventState(e) = ""
       THEN /\ UNCHANGED <<agentVars, idleTimer, timers, decays, evTimes>>
            /\ out' = NoOut
            /\ lastEvent' = NoEvent
       ELSE LET ps == Listeners(registrations[i], EventState(e), PS(i))
            IN  /\ lastEvent' = [inst |-> i, state |-> EventState(e)]
                /\ decays' = [decays EXCEPT ![i] = 0]
                /\ evTimes' = evTimes \cup {now}
                /\ CommitAgents(i, ps)
                /\ CommitTimers(i, ps)
                /\ out' = Only(i, ps.posted)
  /\ UNCHANGED <<layoutVars, webviewSet, registrations, now>>

\* a decay callback whose messages never reach the surface
RunDecaySilent(i, t, remaining) ==
  LET ps == SetAgentState("idle", [PS(i) EXCEPT !.timers = remaining])
  IN  /\ CommitAgents(i, ps)
      /\ CommitTimers(i, ps)
      /\ out' = NoOut
      /\ decays' = [decays EXCEPT ![i] = @ + 1]
      /\ Plain
      /\ UNCHANGED <<layoutVars, webviewSet, registrations, evTimes>>

\* the callback of the timeout t of process i runs
RunDecay(i, t, remaining) ==
  LET ps == SetAgentState("idle", [PS(i) EXCEPT !.timers = remaining])
  IN  /\ CommitAgents(i, ps)
      /\ CommitTimers(i, ps)
      /\ out' = Only(i, ps.posted)
      /\ decays' = [decays EXCEPT ![i] = @ + 1]
      /\ Plain
      /\ UNCHANGED <<layoutVars, webviewSet, registrations, evTimes>>

\* a timeout that is due fires
TimerFires(i) ==
  /\ \E t \in timers[i] :
       /\ t.left = 0
       /\ RunDecay(i, t, timers[i] \ {t})
  /\ UNCHANGED now

\* TickMs pass; a due timeout fires before time goes on
Tick ==
  /\ now < MaxTime
  /\ \A i \in Inst : \A t \in timers[i] : t.left > 0
  /\ now' = now + TickMs
  /\ timers' = [i \in Inst |-> {[t EXCEPT !.left = @ - TickMs] : t \in timers[i]}]
  /\ out' = NoOut /\ Plain
  /\ UNCHANGED <<layoutVars, webviewSet, registrations, agentVars, idleTimer,
                 decays, evTimes>>

\* no event for as long as the earliest timeout of process i needs: it fires
IdleWindowElapses(i) ==
  /\ \E t \in timers[i] :
       /\ \A u \in timers[i] : t.left <= u.left
       /\ RunDecay(i, t, {[u EXCEPT !.left = @ - t.left] : u \in timers[i] \ {t}})
  /\ UNCHANGED now

----------------------------------------------------------------------------
(* The furniture placement validator, after section 4.2 of the             *)
(* specification.  The furniture of a layout maps the uid of a placement   *)
(* to [type, col, row, groupId, anchor]; groupId is the uid of the anchor  *)
(* of its group, 0 for a piece of no group.                                *)

\* The furniture catalog: footprint, placement flags, and for the anchor of
\* a fixed group the other members with their offsets from the anchor.
Catalog ==
  [DESK |-> [w |-> 2, h |-> 1, canPlaceOnWalls |-> FALSE,
             canPlaceOnSurfaces |-> FALSE, members |-> <<>>],
   PC |-> [w |-> 1, h |-> 1, canPlaceOnWalls |-> FALSE,
           canPlaceOnSurfaces |-> TRUE, members |-> <<>>],
   WHITEBOARD |-> [w |-> 2, h |-> 1, canPlaceOnWalls |-> TRUE,
                   canPlaceOnSurfaces |-> FALSE, members |-> <<>>],
   COUCH |-> [w |-> 1, h |-> 1, canPlaceOnWalls |-> FALSE,
              canPlaceOnSurfaces |-> FALSE,
              members |-> <<[type |-> "COUCH_END", dc |-> 1, dr |-> 0]>>],
   COUCH_END |-> [w |-> 1, h |-> 1, canPlaceOnWalls |-> FALSE,
                  canPlaceOnSurfaces |-> FALSE, members |-> <<>>]]

\* the types the editor offers: single pieces and anchors of groups
PlaceableTypes == {"DESK", "PC", "WHITEBOARD", "COUCH"}

\* a room of 3 x 2 tiles, a wall with a gap above a floor
EmptyOffice ==
  LayoutRec(1, 3, 2, TRUE, <<"WALL", "WALL", "VOID", "FLOOR_1", "FLOOR_1", "FLOOR_1">>,
            TRUE, <<0, 0, 0, 0, 0, 0>>)

\* the workstation of a preset: a desk and a PC at the same anchor tile
PresetOffice ==
  [EmptyOffice EXCEPT !.furniture =
     <<[type |-> "DESK", col |-> 0, row |-> 1, groupId |-> 0, anchor |-> FALSE],
       [type |-> "PC", col |-> 0, row |-> 1, groupId |-> 0, anchor |-> FALSE]>>]

\* anchor tiles an operation may name: the grid and one tile past its edges
AnchorCols(lay) == 0..lay.cols
AnchorRows(lay) == 0..lay.rows

Footprint(type, col, row) ==
  {<<c, r>> : c \in col..(col + Catalog[type].w - 1),
              r \in row..(row + Catalog[type].h - 1)}

FootprintOf(p) == Footprint(p.type, p.col, p.row)

InBounds(lay, fp) ==
  \A t \in fp : t[1] >= 0 /\ t[1] < lay.cols /\ t[2] >= 0 /\ t[2] < lay.rows

TileAt(lay, t) == lay.tiles[t[2] * lay.cols + t[1] + 1]

IsFloor(kind) == kind \in TileKinds \ {"VOID", "WALL"}

\* the placements of furn whose footprint holds tile t
Occupants(furn, t) == {u \in DOMAIN furn : t \in FootprintOf(furn[u])}

\* a validator that knows rules 1 and 2 for free tiles and lets any piece
\* overlay any placement
CanPlaceOverAnything(lay, furn, type, col, row) ==
  LET fp == Footprint(type, col, row)
      entry == Catalog[type]
  IN  /\ InBounds(lay, fp)
      /\ \A t \in fp :
           \/ Occupants(furn, t) # {}
           \/ IsFloor(TileAt(lay, t))
           \/ entry.canPlaceOnWalls /\ TileAt(lay, t) = "WALL"

\* rules 1 to 3 for one piece over the furniture furn
CanPlace(lay, furn, type, col, row) ==
  LET fp == Footprint(type, col, row)
      entry == Catalog[type]
  IN  /\ InBounds(lay, fp)
      /\ \A t \in fp :
           IF Occupants(furn, t) = {}
             THEN \/ IsFloor(TileAt(lay, t))
                  \/ entry.canPlaceOnWalls /\ TileAt(lay, t) = "WALL"
             ELSE entry.canPlaceOnSurfaces /\ Cardinality(Occupants(furn, t)) = 1
      /\ Cardinality(UNION {Occupants(furn, t) : t \in fp}) <= 1

\* the pieces that placing type at (col, row) creates: the piece itself and
\* the members of its group at their offsets
Pieces(type, col, row) ==
  <<[type |-> type, col |-> col, row |-> row]>>
    \o [k \in 1..Len(Catalog[type].members) |->
          [type |-> Catalog[type].members[k].type,
           col |-> col + Catalog[type].members[k].dc,
           row |-> row + Catalog[type].members[k].dr]]

FreeUid(furn) ==
  CHOOSE u \in 1..(Cardinality(DOMAIN furn) + 1) :
    u \notin DOMAIN furn /\ \A v \in 1..(u - 1) : v \in DOMAIN furn

With(furn, uid, p) ==
  [u \in (DOMAIN furn) \cup {uid} |-> IF u = uid THEN p ELSE furn[u]]

Without(furn, uids) == [u \in (DOMAIN furn) \ uids |-> furn[u]]

\* The pieces are validated and put into furn one after the other; uids[k]
\* is the uid of pieces[k].  ok is FALSE from the first piece that violates
\* a rule, and furn is then what had been put before it.
RECURSIVE AddPieces(_, _, _, _, _)
AddPieces(lay, furn, pieces, uids, gid) ==
  IF pieces = <<>> THEN [ok |-> TRUE, furn |-> furn]
  ELSE LET p == Head(pieces)
       IN  IF ~CanPlace(lay, furn, p.type, p.col, p.row)
             THEN [ok |-> FALSE, furn |-> furn]
             ELSE AddPieces(lay,
                            With(furn, Head(uids),
                                 [type |-> p.type, col |-> p.col, row |-> p.row,
                                  groupId |-> gid,
                                  anchor |-> gid # 0 /\ Head(uids) = gid]),
                            Tail(pieces), Tail(uids), gid)

\* uids for n new pieces
RECURSIVE FreshUids(_, _)
FreshUids(furn, n) ==
  IF n = 0 THEN <<>>
  ELSE <<FreeUid(furn)>>
         \o FreshUids(With(furn, FreeUid(furn), [type |-> "", col |-> 0, row |-> 0,
                                                 groupId |-> 0, anchor |-> FALSE]),
                      n - 1)

\* an operation that keeps what was put before the piece that failed
KeepPartial(lay, result) == [ok |-> result.ok, layout |-> [lay EXCEPT !.furniture = result.furn]]

\* all or nothing: a failed operation leaves the layout as it was
AllOrNothing(lay, result) ==
  [ok |-> result.ok,
   layout |-> IF result.ok THEN [lay EXCEPT !.furniture = result.furn] ELSE lay]

\* place(layout, type, col, row)
Place(lay, type, col, row) ==
  LET pieces == Pieces(type, col, row)
      uids == FreshUids(lay.furniture, Len(pieces))
      gid == IF Len(pieces) > 1 THEN Head(uids) ELSE 0
  IN  AllOrNothing(lay, AddPieces(lay, lay.furniture, pieces, uids, gid))

\* the uids that move or go with uid: its whole group, anchor first
GroupOf(furn, uid) ==
  IF furn[uid].groupId = 0 THEN <<uid>>
  ELSE LET gid == furn[uid].groupId
           In(u) == u \in DOMAIN furn /\ u # gid /\ furn[u].groupId = gid
       IN  <<gid>> \o SelectSeq([k \in 1..MaxPlacements + 1 |-> k], In)

\* move(uid, col, row): the piece goes to (col, row), the members of its
\* group keep their offsets to it
Move(lay, uid, col, row) ==
  IF uid \notin DOMAIN lay.furniture THEN [ok |-> FALSE, layout |-> lay]
  ELSE LET furn == lay.furniture
           uids == GroupOf(furn, uid)
           dc == col - furn[uid].col
           dr == row - furn[uid].row
           pieces == [k \in 1..Len(uids) |->
                        [type |-> furn[uids[k]].type, col |-> furn[uids[k]].col + dc,
                         row |-> furn[uids[k]].row + dr]]
           rest == Without(furn, {uids[k] : k \in 1..Len(uids)})
       IN  AllOrNothing(lay, AddPieces(lay, rest, pieces, uids, furn[uid].groupId))

\* remove(uid): the anchor takes its group with it; a member that is not
\* the anchor cannot be removed on its own
Remove(lay, uid) ==
  IF uid \notin DOMAIN lay.furniture THEN [ok |-> FALSE, layout |-> lay]
  ELSE LET furn == lay.furniture
           uids == GroupOf(furn, uid)
       IN  IF furn[uid].groupId # 0 /\ ~furn[uid].anchor
             THEN [ok |-> FALSE, layout |-> lay]
             ELSE [ok |-> TRUE,
                   layout |-> [lay EXCEPT !.furniture =
                                 Without(furn, {uids[k] : k \in 1..Len(uids)})]]

\* what the caller of an operation is told
Outcome(result) == Msg(IF result.ok THEN "placementDone" ELSE "placementRejected",
                       NoLayout, 0, "", "validator", 0)

\* the editor of the rendering surface of i applies the result of an operation
Edit(i, result) ==
  /\ surface' = [surface EXCEPT ![i] = result.layout]
  /\ out' = Only(i, <<Outcome(result)>>)
  /\ Plain
  /\ UNCHANGED <<file, writes, notes, watching, watchers, skipNext, defaultLayout, echoed,
                 lastDone, begun, webviewSet, registrations, agentVars, idleTimer,
                 timers, decays, evTimes, now>>

PlaceFurniture(i, type, col, row) ==
  /\ surface[i] # NoLayout
  /\ Cardinality(DOMAIN surface[i].furniture) + Len(Pieces(type, col, row))
       <= MaxPlacements
  /\ Edit(i, Place(surface[i], type, col, row))

MoveFurniture(i, uid, col, row) ==
  /\ surface[i] # NoLayout
  /\ Edit(i, Move(surface[i], uid, col, row))

RemoveFurniture(i, uid) ==
  /\ surface[i] # NoLayout
  /\ Edit(i, Remove(surface[i], uid))

----------------------------------------------------------------------------
(* The auto-tiling engine, after section 4.1 of the specification.  Row 0  *)
(* is the northern row of the grid, column 0 the western column.           *)

\* a grid of TileCols x TileRows floor tiles
FloorGrid ==
  LayoutRec(1, TileCols, TileRows, TRUE, [k \in 1..(TileCols * TileRows) |-> "FLOOR_1"],
            TRUE, [k \in 1..(TileCols * TileRows) |-> 0])

\* the tile kinds the editor paints in the model
PaintKinds == {"WALL", "FLOOR_1"}

\* the tile (c, r) is in the grid and is a wall
IsWallAt(lay, c, r) ==
  /\ c >= 0 /\ c < lay.cols /\ r >= 0 /\ r < lay.rows
  /\ TileAt(lay, <<c, r>>) = "WALL"

\* a bitmask that finds the neighbours in the tiles array by index only: the
\* tile before the first of a row is the last tile of the row above
WallBitmaskByIndex(lay, c, r) ==
  LET k == r * lay.cols + c + 1
      Wall(j) == j >= 1 /\ j <= Len(lay.tiles) /\ lay.tiles[j] = "WALL"
  IN  (IF Wall(k - lay.cols) THEN 1 ELSE 0) + (IF Wall(k + 1) THEN 2 ELSE 0)
        + (IF Wall(k + lay.cols) THEN 4 ELSE 0) + (IF Wall(k - 1) THEN 8 ELSE 0)

\* the 4-bit neighbour bitmask of the wall tile (c, r)
WallBitmask(lay, c, r) ==
  (IF IsWallAt(lay, c, r - 1) THEN 1 ELSE 0) + (IF IsWallAt(lay, c + 1, r) THEN 2 ELSE 0)
    + (IF IsWallAt(lay, c, r + 1) THEN 4 ELSE 0) + (IF IsWallAt(lay, c - 1, r) THEN 8 ELSE 0)

\* the index into the wall palette for every wall tile of the layout, as the
\* renderer computes it for a frame
WallIndices(lay) ==
  [t \in {t \in (0..(lay.cols - 1)) \X (0..(lay.rows - 1)) : TileAt(lay, t) = "WALL"} |->
     WallBitmask(lay, t[1], t[2])]

\* the editor paints the tile (col, row) of the layout of i
PaintTile(i, col, row, kind) ==
  /\ surface[i] # NoLayout
  /\ col < surface[i].cols /\ row < surface[i].rows
  /\ surface' = [surface EXCEPT ![i].tiles[row * surface[i].cols + col + 1] = kind]
  /\ out' = NoOut
  /\ Plain
  /\ UNCHANGED <<file, writes, notes, watching, watchers, skipNext, defaultLayout, echoed,
                 lastDone, begun, webviewSet, registrations, agentVars, idleTimer,
                 timers, decays, evTimes, now>>

----------------------------------------------------------------------------
(* The layout serializer of the rendering surface, after sections 3 and 4.3 *)
(* of the specification.  In memory the furniture of a layout is keyed by   *)
(* uid; the canonical record lists the placements in uid order, each with   *)
(* its uid, and leaves groupId out of a placement that belongs to no group. *)

\* the uids of furn in increasing order
RECURSIVE UidOrder(_)
UidOrder(uids) ==
  IF uids = {} THEN <<>>
  ELSE LET u == CHOOSE u \in uids : \A v \in uids : u <= v
       IN  <<u>> \o UidOrder(uids \ {u})

\* serialize(layout): the canonical record of the current version
Serialize(lay) ==
  [lay EXCEPT !.version = CURRENT_VERSION,
              !.furniture = LET order == UidOrder(DOMAIN lay.furniture)
                            IN  [k \in 1..Len(order) |->
                                   LET p == lay.furniture[order[k]]
                                   IN  [uid |-> order[k], type |-> p.type,
                                        col |-> p.col, row |-> p.row,
                                        hasGroupId |-> p.groupId # 0,
                                        groupId |-> p.groupId]]]

DeserializePlacement(e) ==
  [type |-> e.type, col |-> e.col, row |-> e.row,
   groupId |-> IF e.hasGroupId THEN e.groupId ELSE 0,
   anchor |-> e.hasGroupId /\ e.groupId = e.uid]

\* the placements of a record keyed by their position in the record
FurnitureByIndex(entries) ==
  [k \in 1..Len(entries) |-> DeserializePlacement(entries[k])]

\* the placements of a record keyed by their uid
FurnitureByUid(entries) ==
  [u \in {entries[k].uid : k \in 1..Len(entries)} |->
     DeserializePlacement(entries[CHOOSE k \in 1..Len(entries) : entries[k].uid = u])]

\* load(record): the layout of a record that loads, else NoLayout
Deserialize(rec) ==
  IF LoadLayout(rec) = NoLayout THEN NoLayout
  ELSE [LoadLayout(rec) EXCEPT !.furniture = FurnitureByUid(@)]

\* the layout editor of i serializes its layout and sends saveLayout{layout};
\* the editor keeps its layout
EditorSaves(i) ==
  /\ webviewSet[i] /\ surface[i] # NoLayout
  /\ begun < MaxWrites
  /\ skipNext' = MarkOwnWrite(i)
  /\ writes' = WriteLayoutToFile(i, Serialize(surface[i]), MarkOwnWrite(i))
  /\ begun' = begun + 1
  /\ out' = NoOut /\ Plain
  /\ UNCHANGED <<file, notes, watching, watchers, defaultLayout, surface, echoed, lastDone,
                 webviewSet, registrations, agentVars, idleTimer, timers, decays,
                 evTimes, now>>

----------------------------------------------------------------------------
(* layoutPresets.ts and LayoutPresetsPanel.tsx.  A template is a sequence   *)
(* of rows, a row a sequence of characters; Run(ch, n) is n times ch.       *)

Run(ch, n) == [k \in 1..n |-> ch]

FloorColor(h, s, b, c) == [isNull |-> FALSE, h |-> h, s |-> s, b |-> b, c |-> c]
NullColor == [isNull |-> TRUE, h |-> 0, s |-> 0, b |-> 0, c |-> 0]
NEUTRAL == FloorColor(0, 0, 0, 0)
WARM == FloorColor(25, 20, 5, 0)
DARK_BROWN == FloorColor(15, 45, -35, 10)

\* mapping[ch] ?? { tile: VOID, color: null }; a character past the end of a
\* row is undefined and maps to the same
MapEntry(mapping, row, c) ==
  IF c <= Len(row) /\ row[c] \in DOMAIN mapping THEN mapping[row[c]]
  ELSE [tile |-> "VOID", color |-> NullColor]

\* the grid with the loops over rows and over columns exchanged
GridByColumns(template, mapping) ==
  LET rows == Len(template)
      cols == Len(template[1])
  IN  [cols |-> cols, rows |-> rows,
       tiles |-> [k \in 1..(rows * cols) |->
                    MapEntry(mapping, template[((k - 1) % rows) + 1],
                             ((k - 1) \div rows) + 1).tile],
       tileColors |-> [k \in 1..(rows * cols) |->
                         MapEntry(mapping, template[((k - 1) % rows) + 1],
                                  ((k - 1) \div rows) + 1).color]]

GridFromTemplate(template, mapping) ==
  LET rows == Len(template)
      cols == Len(template[1])
  IN  [cols |-> cols, rows |-> rows,
       tiles |-> [k \in 1..(rows * cols) |->
                    MapEntry(mapping, template[((k - 1) \div cols) + 1],
                             ((k - 1) % cols) + 1).tile],
       tileColors |-> [k \in 1..(rows * cols) |->
                         MapEntry(mapping, template[((k - 1) \div cols) + 1],
                                  ((k - 1) % cols) + 1).color]]

Placed(uid, type, col, row) == [uid |-> uid, type |-> type, col |-> col, row |-> row]

\* return { version: 1, cols, rows, tiles, tileColors, furniture }
PresetLayout(grid, furniture) ==
  [version |-> 1, cols |-> grid.cols, rows |-> grid.rows, tilesIsArray |-> TRUE,
   tiles |-> grid.tiles, hasTileColors |-> TRUE, tileColors |-> grid.tileColors,
   furniture |-> furniture]

CreateDenseOfficePreset ==
  LET template ==
      <<Run("W", 20),
        Run("W", 1) \o Run(".", 18) \o Run("W", 1),
        Run("W", 1) \o Run(".", 18) \o Run("W", 1),
        Run("W", 1) \o Run(".", 18) \o Run("W", 1),
        Run("W", 1) \o Run(".", 18) \o Run("W", 1),
        Run("W", 1) \o Run(".", 18) \o Run("W", 1),
        Run("W", 1) \o Run(".", 18) \o Run("W", 1),
        Run("W", 1) \o Run(".", 18) \o Run("W", 1),
        Run("W", 1) \o Run(".", 18) \o Run("W", 1),
        Run("W", 1) \o Run(".", 18) \o Run("W", 1),
        Run("W", 1) \o Run(".", 18) \o Run("W", 1),
        Run("W", 20)>>
      mapping ==
      [ch \in {"W", "."} |->
         IF ch = "W" THEN [tile |-> "WALL", color |-> WARM]
         ELSE [tile |-> "FLOOR_6", color |-> NEUTRAL]]
      furniture ==
      <<Placed("desk-tl", "DESK", 3, 3),
        Placed("pc-tl", "PC", 3, 3),
        Placed("chair-tl", "CHAIR", 4, 5),
        Placed("desk-tr", "DESK", 13, 3),
        Placed("pc-tr", "PC", 14, 3),
        Placed("chair-tr", "CHAIR", 14, 5),
        Placed("desk-bl", "DESK", 3, 7),
        Placed("pc-bl", "PC", 3, 7),
        Placed("chair-bl", "CHAIR", 4, 9),
        Placed("desk-br", "DESK", 13, 7),
        Placed("pc-br", "PC", 14, 7),
        Placed("chair-br", "CHAIR", 14, 9),
        Placed("plant-1", "PLANT", 1, 1),
        Placed("plant-2", "PLANT", 18, 1),
        Placed("plant-3", "PLANT", 1, 10),
        Placed("plant-4", "PLANT", 18, 10),
        Placed("cooler", "COOLER", 9, 1),
        Placed("wb", "WHITEBOARD", 10, 1),
        Placed("bookshelf-1", "BOOKSHELF", 1, 5),
        Placed("bookshelf-2", "BOOKSHELF", 18, 5),
        Placed("lamp-1", "LAMP", 8, 5),
        Placed("lamp-2", "LAMP", 11, 5)>>
  IN  PresetLayout(GridFromTemplate(template, mapping), furniture)

CreateCozyBedroomPreset ==
  LET template ==
      <<Run("_", 6) \o Run("W", 6) \o Run("_", 8),
        Run("_", 4) \o Run("W", 10) \o Run("_", 6),
        Run("_", 3) \o Run("W", 2) \o Run(".", 8) \o Run("W", 2) \o Run("_", 5),
        Run("_", 2) \o Run("W", 2) \o Run(".", 10) \o Run("W", 2) \o Run("_", 4),
        Run("_", 1) \o Run("W", 2) \o Run(".", 12) \o Run("W", 2) \o Run("_", 3),
        Run("W", 2) \o Run(".", 14) \o Run("W", 2) \o Run("_", 2),
        Run("W", 1) \o Run(".", 16) \o Run("W", 1) \o Run("_", 2),
        Run("W", 1) \o Run(".", 16) \o Run("W", 1) \o Run("_", 2),
        Run("W", 1) \o Run(".", 16) \o Run("W", 1) \o Run("_", 2),
        Run("W", 1) \o Run(".", 16) \o Run("W", 1) \o Run("_", 2),
        Run("W", 18) \o Run("_", 2)>>
      mapping ==
      [ch \in {"W", ".", "_"} |->
         IF ch = "W" THEN [tile |-> "WALL", color |-> DARK_BROWN]
         ELSE IF ch = "." THEN [tile |-> "FLOOR_1", color |-> NEUTRAL]
         ELSE [tile |-> "VOID", color |-> NullColor]]
      furniture ==
      <<Placed("desk", "DESK", 3, 7),
        Placed("pc", "PC", 3, 7),
        Placed("chair", "CHAIR", 4, 9),
        Placed("bs-1", "BOOKSHELF", 1, 7),
        Placed("plant-1", "PLANT", 5, 3),
        Placed("plant-2", "PLANT", 14, 5),
        Placed("lamp-1", "LAMP", 10, 3),
        Placed("cooler", "COOLER", 12, 8),
        Placed("lamp-2", "LAMP", 15, 7),
        Placed("bs-2", "BOOKSHELF", 8, 7)>>
  IN  PresetLayout(GridFromTemplate(template, mapping), furniture)

CreateLivingRoomPreset ==
  LET template ==
      <<Run("_", 6) \o Run("W", 16),
        Run("_", 6) \o Run("W", 1) \o Run(".", 14) \o Run("W", 1),
        Run("_", 6) \o Run("W", 1) \o Run(".", 14) \o Run("W", 1),
        Run("_", 6) \o Run("W", 1) \o Run(".", 14) \o Run("W", 1),
        Run("W", 7) \o Run(".", 14) \o Run("W", 1),
        Run("W", 1) \o Run(".", 20) \o Run("W", 1),
        Run("W", 1) \o Run(".", 20) \o Run("W", 1),
        Run("W", 1) \o Run(".", 20) \o Run("W", 1),
        Run("W", 1) \o Run(".", 20) \o Run("W", 1),
        Run("W", 1) \o Run(".", 20) \o Run("W", 1),
        Run("W", 1) \o Run(".", 20) \o Run("W", 1),
        Run("W", 1) \o Run(".", 20) \o Run("W", 1),
        Run("W", 1) \o Run(".", 20) \o Run("W", 1),
        Run("W", 22)>>
      mapping ==
      [ch \in {"W", ".", "_"} |->
         IF ch = "W" THEN [tile |-> "WALL", color |-> WARM]
         ELSE IF ch = "." THEN [tile |-> "FLOOR_1", color |-> NEUTRAL]
         ELSE [tile |-> "VOID", color |-> NullColor]]
      furniture ==
      <<Placed("bs-ur1", "BOOKSHELF", 18, 1),
        Placed("bs-ur2", "BOOKSHELF", 18, 3),
        Placed("lamp-ur", "LAMP", 12, 1),
        Placed("wb-ur", "WHITEBOARD", 14, 1),
        Placed("plant-ur", "PLANT", 7, 1),
        Placed("bs-l1", "BOOKSHELF", 1, 5),
        Placed("bs-l2", "BOOKSHELF", 1, 7),
        Placed("plant-l", "PLANT", 1, 9),
        Placed("lamp-l", "LAMP", 1, 11),
        Placed("desk-c", "DESK", 8, 7),
        Placed("pc-c", "PC", 8, 7),
        Placed("chair-c1", "CHAIR", 9, 9),
        Placed("chair-c2", "CHAIR", 7, 8),
        Placed("chair-c3", "CHAIR", 10, 8),
        Placed("lamp-c", "LAMP", 9, 6),
        Placed("cooler-r", "COOLER", 20, 6),
        Placed("bs-r", "BOOKSHELF", 20, 8),
        Placed("plant-r1", "PLANT", 20, 10),
        Placed("plant-r2", "PLANT", 20, 12),
        Placed("desk-ll", "DESK", 3, 10),
        Placed("pc-ll", "PC", 3, 10),
        Placed("chair-ll", "CHAIR", 4, 12),
        Placed("plant-b1", "PLANT", 14, 12),
        Placed("lamp-b", "LAMP", 17, 12),
        Placed("desk-ur", "DESK", 9, 2),
        Placed("pc-ur", "PC", 9, 2),
        Placed("chair-ur", "CHAIR", 10, 4)>>
  IN  PresetLayout(GridFromTemplate(template, mapping), furniture)

\* createDefaultLayout of layoutSerializer.js: a small room
CreateDefaultLayout ==
  PresetLayout(GridFromTemplate(<<Run("W", 3), Run(".", 3)>>,
                                [ch \in {"W", "."} |->
                                   IF ch = "W" THEN [tile |-> "WALL", color |-> WARM]
                                   ELSE [tile |-> "FLOOR_1", color |-> NEUTRAL]]),
               <<>>)

\* LAYOUT_PRESETS
PresetIds == <<"default", "dense", "bedroom", "living">>

CreatePreset(id) ==
  CASE id = "default" -> CreateDefaultLayout
    [] id = "dense" -> CreateDenseOfficePreset
    [] id = "bedroom" -> CreateCozyBedroomPreset
    [] id = "living" -> CreateLivingRoomPreset

CONFIRM_TIMEOUT_MS == 3000
PanelTickMs == 1000

\* The panel of a window: confirmKey ("" for null) and the delays left of the
\* timeouts set by clicks, oldest first; age is the time since the click that
\* set confirmKey, clicks the number of clicks so far.  The state `hovered`
\* only styles a button.
NoPanel == [confirmKey |-> "", timeouts |-> <<>>, age |-> 0, clicks |-> 0]

\* onClick of the button of preset id
ClickPreset(i, id) ==
  /\ webviewSet[i]
  /\ panel[i].clicks < MaxClicks
  /\ IF panel[i].confirmKey = id
       THEN \* onLoadPreset(preset.create())
            /\ out' = Only(i, <<Msg("onLoadPreset", CreatePreset(id), 0, id,
                                    "LayoutPresetsPanel", 0)>>)
            /\ surface' = [surface EXCEPT ![i] = CreatePreset(id)]
            /\ panel' = [panel EXCEPT ![i].confirmKey = "", ![i].age = 0,
                                      ![i].clicks = @ + 1]
       ELSE /\ out' = NoOut
            /\ UNCHANGED surface
            /\ panel' = [panel EXCEPT ![i].confirmKey = id, ![i].age = 0,
                                      ![i].clicks = @ + 1,
                                      ![i].timeouts = Append(@, CONFIRM_TIMEOUT_MS)]
  /\ lastEvent' = NoEvent
  /\ UNCHANGED <<file, writes, notes, watching, watchers, skipNext, defaultLayout, echoed,
                 lastDone, begun, webviewSet, registrations, agentVars, idleTimer,
                 timers, decays, evTimes, now>>

\* the callback of the oldest timeout of the panel runs: setConfirmKey(null)
ConfirmTimeout(i) ==
  /\ panel[i].timeouts # <<>> /\ Head(panel[i].timeouts) = 0
  /\ panel' = [panel EXCEPT ![i].confirmKey = "", ![i].age = 0,
                            ![i].timeouts = Tail(@)]
  /\ out' = NoOut
  /\ lastEvent' = NoEvent
  /\ UNCHANGED <<layoutVars, webviewSet, registrations, agentVars, idleTimer,
                 timers, decays, evTimes, now>>

\* PanelTickMs pass in the rendering surface while a timeout is pending; a
\* due timeout runs before time goes on
PanelTick(i) ==
  /\ panel[i].timeouts # <<>>
  /\ \A k \in 1..Len(panel[i].timeouts) : panel[i].timeouts[k] > 0
  /\ panel' = [panel EXCEPT
                 ![i].timeouts = [k \in 1..Len(@) |-> @[k] - PanelTickMs],
                 ![i].age = IF panel[i].confirmKey = "" THEN 0 ELSE @ + PanelTickMs]
  /\ out' = NoOut
  /\ lastEvent' = NoEvent
  /\ UNCHANGED <<layoutVars, webviewSet, registrations, agentVars, idleTimer,
                 timers, decays, evTimes, now>>

----------------------------------------------------------------------------
(* Initial states and specifications *)

NoTraffic ==
  /\ writes = {}
  /\ notes = [i \in Inst |-> <<>>]
  /\ skipNext = [i \in Inst |-> FALSE]
  /\ echoed = [i \in Inst |-> FALSE]
  /\ lastDone = [layout |-> NoLayout, by |-> 0, raced |-> FALSE]
  /\ begun = 0

InitLayout ==
  /\ NoTraffic
  /\ watching = [i \in Inst |-> FALSE]
  /\ watchers = [i \in Inst |-> 0]
  /\ defaultLayout = [i \in Inst |-> NoLayout]
  /\ surface = [i \in Inst |-> NoLayout]

InitProcess ==
  /\ idleTimer = [i \in Inst |-> 0]
  /\ timers = [i \in Inst |-> {}]
  /\ now = 0
  /\ out = NoOut
  /\ lastMon = [i \in Inst |-> [id \in 1..(MaxAgentId + 1) |-> NoStatus]]
  /\ decays = [i \in Inst |-> 0]
  /\ lastEvent = NoEvent
  /\ evTimes = {}
  /\ panel = [i \in Inst |-> NoPanel]

NoRoster ==
  /\ agents = [i \in Inst |-> NoAgents]
  /\ nextAgentId = [i \in Inst |-> 1]
  /\ activeAgentId = [i \in Inst |-> 0]
  /\ persisted = [i \in Inst |-> {}]
  /\ highestId = [i \in Inst |-> 0]

\* Layout synchronisation between the windows.  Every window has resolved
\* its view and handled webviewReady with its assets present: its watcher
\* runs and its surface holds what sendLayout sent.  The shared file is
\* absent or holds an earlier layout.
Init ==
  /\ file \in {NoLayout, LayoutA}
  /\ NoTraffic /\ InitProcess /\ NoRoster
  /\ watching = [i \in Inst |-> TRUE]
  /\ watchers = [i \in Inst |-> 1]
  /\ defaultLayout = [i \in Inst |-> BundledDefault]
  /\ surface = [i \in Inst |-> MigrateAndLoadLayout(BundledDefault)]
  /\ webviewSet = [i \in Inst |-> TRUE]
  /\ registrations = [i \in Inst |-> 1]

Next ==
  \/ \E i \in Inst : \E l \in SavePayloads : SaveLayout(i, l)
  \/ \E i \in Inst : \E p \in ImportPicks : ImportLayout(i, p)
  \/ \E i \in Inst : ResetToDefaultLayout(i)
  \/ \E w \in writes : WriteCompletes(w)
  \/ \E w \in writes : WriteFails(w)
  \/ \E i \in Inst : ChangeNotification(i)
  \/ \E i \in Inst : Dispose(i)

Spec == Init /\ [][Next]_vars

\* The same windows when the store is writable: every write begun completes.
NextRace ==
  \/ \E i \in Inst : \E l \in SavePayloads : SaveLayout(i, l)
  \/ \E i \in Inst : \E p \in ImportPicks : ImportLayout(i, p)
  \/ \E i \in Inst : ResetToDefaultLayout(i)
  \/ \E w \in writes : WriteCompletes(w)
  \/ \E i \in Inst : ChangeNotification(i)
  \/ \E i \in Inst : Dispose(i)

SpecRace == Init /\ [][NextRace]_vars

\* The roster and the activity monitor of one window, from construction on,
\* where no assets directory is found.  Durations are abstracted: the pending
\* timeout may fire at any moment.
Local == CHOOSE i \in Inst : \A j \in Inst : i <= j

\* an earlier session may have left a roster in the workspace state
InitPresence ==
  /\ file = NoLayout
  /\ InitLayout /\ InitProcess
  /\ agents = [i \in Inst |-> NoAgents]
  /\ nextAgentId = [i \in Inst |-> 1]
  /\ activeAgentId = [i \in Inst |-> 0]
  /\ \E old \in {{}, {1}} :
       /\ persisted = [i \in Inst |-> IF i = Local THEN old ELSE {}]
       /\ highestId = [i \in Inst |-> IF i = Local THEN SetMax(old) ELSE 0]
  /\ webviewSet = [i \in Inst |-> FALSE]
  /\ registrations = [i \in Inst |-> 0]

NextPresence ==
  \/ ResolveWebviewView(Local)
  \/ AddAgent(Local)
  \/ \E id \in 1..(MaxAgentId + 1) : CloseAgent(Local, id)
  \/ WebviewReady(Local, NoAssetsRoot)
  \/ \E e \in Events : ActivityEvent(Local, e)
  \/ IdleWindowElapses(Local)
  \/ Dispose(Local)

SpecPresence == InitPresence /\ [][NextPresence]_vars

\* the roster in memory holds every id of the persisted roster
RosterLoaded(i) == persisted[i] \subseteq DOMAIN agents[i]

\* The same window over several sessions: the window may be reloaded at any
\* moment, and the new provider finds the workspace state the old one left.
\* The view asks for a new agent only once the roster it shows is loaded.
NextRoster ==
  \/ ResolveWebviewView(Local)
  \/ RosterLoaded(Local) /\ AddAgent(Local)
  \/ \E id \in 1..(MaxAgentId + 1) : CloseAgent(Local, id)
  \/ WebviewReady(Local, NoAssetsRoot)
  \/ \E e \in Events : ActivityEvent(Local, e)
  \/ IdleWindowElapses(Local)
  \/ Dispose(Local)
  \/ NewProvider(Local)

SpecRoster == InitPresence /\ [][NextRoster]_vars

\* The start of a window: its view is resolved and announces itself, with
\* any combination of assets present, missing or malformed, over a store
\* that is absent or holds a layout.
InitStartup ==
  /\ file \in {NoLayout, LayoutA}
  /\ InitLayout /\ InitProcess /\ NoRoster
  /\ webviewSet = [i \in Inst |-> FALSE]
  /\ registrations = [i \in Inst |-> 0]

NextStartup ==
  \/ ResolveWebviewView(Local)
  \/ \E a \in AssetSets : WebviewReady(Local, a)
  \/ Dispose(Local)

SpecStartup == InitStartup /\ [][NextStartup]_vars

\* The layout editor of one window over a small office, empty or furnished
\* as a preset furnishes it.
InitPlacement ==
  /\ file = NoLayout
  /\ NoTraffic /\ InitProcess /\ NoRoster
  /\ watching = [i \in Inst |-> i = Local]
  /\ watchers = [i \in Inst |-> IF i = Local THEN 1 ELSE 0]
  /\ defaultLayout = [i \in Inst |-> NoLayout]
  /\ webviewSet = [i \in Inst |-> i = Local]
  /\ registrations = [i \in Inst |-> IF i = Local THEN 1 ELSE 0]
  /\ \E office \in {EmptyOffice, PresetOffice} :
       surface = [i \in Inst |-> IF i = Local THEN office ELSE NoLayout]

NextPlacement ==
  \/ \E type \in PlaceableTypes :
       \E col \in AnchorCols(surface[Local]) : \E row \in AnchorRows(surface[Local]) :
         PlaceFurniture(Local, type, col, row)
  \/ \E uid \in 1..(MaxPlacements + 1) :
       \E col \in AnchorCols(surface[Local]) : \E row \in AnchorRows(surface[Local]) :
         MoveFurniture(Local, uid, col, row)
  \/ \E uid \in 1..(MaxPlacements + 1) : RemoveFurniture(Local, uid)

SpecPlacement == InitPlacement /\ [][NextPlacement]_vars

\* The tile editor of one window over a grid of floor tiles.
InitTiles ==
  /\ file = NoLayout
  /\ NoTraffic /\ InitProcess /\ NoRoster
  /\ watching = [i \in Inst |-> i = Local]
  /\ watchers = [i \in Inst |-> IF i = Local THEN 1 ELSE 0]
  /\ defaultLayout = [i \in Inst |-> NoLayout]
  /\ webviewSet = [i \in Inst |-> i = Local]
  /\ registrations = [i \in Inst |-> IF i = Local THEN 1 ELSE 0]
  /\ surface = [i \in Inst |-> IF i = Local THEN FloorGrid ELSE NoLayout]

NextTiles ==
  \E col \in 0..(TileCols - 1) : \E row \in 0..(TileRows - 1) : \E kind \in PaintKinds :
    PaintTile(Local, col, row, kind)

SpecTiles == InitTiles /\ [][NextTiles]_vars

\* One window edits and saves an office; another window opens afterwards and
\* loads what the shared file holds.  The change notifications of the first
\* window stay pending.  The offices are a bare one, the
\* workstation preset, and a tinted one left with a couch group after the
\* placement with uid 1 was removed.
TintedOffice ==
  [EmptyOffice EXCEPT !.tileColors = <<0, 0, 0, 25, 0, 40>>,
                      !.furniture =
     [u \in {2, 3} |->
        IF u = 2 THEN [type |-> "COUCH", col |-> 0, row |-> 1, groupId |-> 2,
                       anchor |-> TRUE]
        ELSE [type |-> "COUCH_END", col |-> 1, row |-> 1, groupId |-> 2,
              anchor |-> FALSE]]]

Remote == CHOOSE i \in Inst : i # Local

InitRoundTrip ==
  /\ file = NoLayout
  /\ NoTraffic /\ InitProcess /\ NoRoster
  /\ watching = [i \in Inst |-> i = Local]
  /\ watchers = [i \in Inst |-> IF i = Local THEN 1 ELSE 0]
  /\ defaultLayout = [i \in Inst |-> NoLayout]
  /\ webviewSet = [i \in Inst |-> i = Local]
  /\ registrations = [i \in Inst |-> IF i = Local THEN 1 ELSE 0]
  /\ \E office \in {EmptyOffice, PresetOffice, TintedOffice, LayoutA, LayoutB} :
       surface = [i \in Inst |-> IF i = Local THEN office ELSE NoLayout]

NextRoundTrip ==
  \/ EditorSaves(Local)
  \/ \E w \in writes : WriteCompletes(w)
  \/ ResolveWebviewView(Remote)
  \/ WebviewReady(Remote, NoAssetsRoot)
  \/ ChangeNotification(Remote)
  \/ Dispose(Remote)

SpecRoundTrip == InitRoundTrip /\ [][NextRoundTrip]_vars

\* The layout presets panel of one window that shows the default layout.
InitPresets ==
  /\ file = NoLayout
  /\ NoTraffic /\ InitProcess /\ NoRoster
  /\ watching = [i \in Inst |-> i = Local]
  /\ watchers = [i \in Inst |-> IF i = Local THEN 1 ELSE 0]
  /\ defaultLayout = [i \in Inst |-> NoLayout]
  /\ webviewSet = [i \in Inst |-> i = Local]
  /\ registrations = [i \in Inst |-> IF i = Local THEN 1 ELSE 0]
  /\ surface = [i \in Inst |-> IF i = Local THEN CreateDefaultLayout ELSE NoLayout]

NextPresets ==
  \/ \E k \in DOMAIN PresetIds : ClickPreset(Local, PresetIds[k])
  \/ ConfirmTimeout(Local)
  \/ PanelTick(Local)

SpecPresets == InitPresets /\ [][NextPresets]_vars

\* The idle-decay scenario on the clock: a window with a roster of idle
\* agents; events are observed during the first MaxEventTick ticks only.
InitIdle ==
  /\ file = NoLayout
  /\ InitLayout /\ InitProcess
  /\ webviewSet = [i \in Inst |-> i = Local]
  /\ registrations = [i \in Inst |-> IF i = Local THEN 1 ELSE 0]
  /\ \E n \in 1..MaxAgentId :
       /\ agents = [i \in Inst |-> IF i = Local THEN [id \in 1..n |-> "idle"]
                                    ELSE NoAgents]
       /\ nextAgentId = [i \in Inst |-> IF i = Local THEN n + 1 ELSE 1]
       /\ activeAgentId = [i \in Inst |-> IF i = Local THEN n ELSE 0]
       /\ persisted = [i \in Inst |-> IF i = Local THEN 1..n ELSE {}]
       /\ highestId = [i \in Inst |-> IF i = Local THEN n ELSE 0]

NextIdle ==
  \/ \E e \in Events : now <= MaxEventTick * TickMs /\ ActivityEvent(Local, e)
  \/ TimerFires(Local)
  \/ Tick

SpecIdle == InitIdle /\ [][NextIdle]_vars

----------------------------------------------------------------------------
(* Layout synchronisation: properties *)

\* instance i observes a change notification in this step
Observes(i) ==
  /\ watching[i] /\ notes[i] # <<>>
  /\ watching'[i] /\ notes'[i] = Tail(notes[i])

WatcherPushes(msgs) == {k \in 1..Len(msgs) : msgs[k].by = "watcher"}

\* no write is in flight and no notification is waiting
Quiescent == writes = {} /\ \A i \in Inst : notes[i] = <<>>

\* C1: a change notification caused by an instance's own write never makes
\* the watcher post layoutLoaded to that instance's own surface.
C1_OwnWriteNotRedelivered ==
  \A i \in Inst : \A k \in WatcherPushes(out[i]) : out[i][k].cause # i

\* C2: with the watcher running, the first notification an instance observes
\* after its own write pushes nothing and leaves the surface alone; the
\* notification of a later write of another instance, observed with the marker
\* consumed and nothing else completed since, pushes exactly one layoutLoaded
\* whose payload is the layout that write stored.
C2_EchoSuppressedThenExternalPushed ==
  [][\A i \in Inst :
       Observes(i) =>
         /\ skipNext[i] => /\ out'[i] = <<>>
                           /\ surface'[i] = surface[i]
                           /\ ~skipNext'[i]
         /\ (~skipNext[i] /\ Len(notes[i]) = 1 /\ Head(notes[i]) # i) =>
              /\ Len(out'[i]) = 1
              /\ out'[i][1].type = "layoutLoaded"
              /\ out'[i][1].layout = lastDone.layout
              /\ Head(notes[i]) = lastDone.by
              /\ surface'[i] = lastDone.layout]_vars

\* an instance whose own write of A was echoed and suppressed has been pushed
\* B, written afterwards by the other instance
C2_Witness ==
  \E i \in Inst :
    /\ out[i] = <<WatcherPush(LayoutB, 3 - i, TRUE)>>
    /\ surface[i] = LayoutB /\ file = LayoutB
    /\ lastDone = [layout |-> LayoutB, by |-> 3 - i, raced |-> FALSE]

\* C3: once an instance has written, every notification caused by a write of
\* another instance makes the watcher push the external layout to it.
C3_ExternalAlwaysPushed ==
  [][\A i \in Inst :
       (Observes(i) /\ Head(notes[i]) # i) =>
         /\ WatcherPushes(out'[i]) # {}
         /\ surface'[i] = file]_vars

\* C4: a write begun by an instance whose watcher runs is begun with the
\* marker already set, in each of the three writing handlers.
C4_MarkerBeforeWrite == \A w \in writes : w.watched => w.marked

\* a write of a watching instance is in flight, marked
C4_Witness ==
  \E w \in writes : w.watched /\ w.marked /\ skipNext[w.by] /\ w.layout = BundledDefault

\* C5: once the writes have completed and every notification is observed, the
\* file holds the layout of the write that completed last, one that ran beside
\* a write of the other instance, and every watching instance that did not make
\* that write shows it.
C5_LastWriteWins ==
  (Quiescent /\ lastDone.raced) =>
    /\ file = lastDone.layout
    /\ \A j \in Inst : (watching[j] /\ j # lastDone.by) => surface[j] = file

\* two writes raced, the later one won and the other window has been pushed it
C5_Witness ==
  /\ Quiescent /\ lastDone.raced /\ begun = 2
  /\ \E j \in Inst : /\ j # lastDone.by /\ watching[j]
                     /\ surface[j] = lastDone.layout
                     /\ WatcherPushes(out[j]) # {}

\* C6: the shared file, when present, holds a serialized Layout.
C6_StoreIsSerializedLayout == file # NoLayout => IsSerializedLayout(file)

----------------------------------------------------------------------------
(* Presence: properties *)

Roster(i) == DOMAIN agents[i]

MonitorPosts(msgs) == {k \in 1..Len(msgs) : msgs[k].by = "monitor"}

\* C7: all agents of a roster have the same activityState.
C7_OneSharedState ==
  \A i \in Inst : \A a, b \in Roster(i) : agents[i][a] = agents[i][b]

AllIdle(i) == \A a \in Roster(i) : agents[i][a] = "idle"
NoneIdle(i) == \A a \in Roster(i) : agents[i][a] # "idle"

\* C8: with the idle window of 5000 ms and qualifying events at 0 ms and at
\* 100 ms only, no agent is idle and no decay has run before 5100 ms, the
\* decay runs at 5100 ms, and from then on the agents are idle after exactly
\* one decay, no timeout pending.
C8_IdleOnceAt5100 ==
  (TEXT_IDLE_DELAY_MS = 5000 /\ evTimes = {0, 100}) =>
    /\ now < 5100 => /\ NoneIdle(Local) /\ decays[Local] = 0
                     /\ \A t \in timers[Local] : t.left = 5100 - now
    /\ now = 5100 => \/ /\ NoneIdle(Local) /\ decays[Local] = 0
                        /\ \E t \in timers[Local] : t.left = 0
                     \/ /\ AllIdle(Local) /\ decays[Local] = 1
                        /\ timers[Local] = {}
    /\ now > 5100 => /\ AllIdle(Local) /\ decays[Local] = 1
                     /\ timers[Local] = {}

\* the decay has just run at 5100 ms, after events at 0 ms and 100 ms
C8_Witness ==
  /\ evTimes = {0, 100} /\ now = 5100 /\ decays[Local] = 1
  /\ Roster(Local) # {} /\ AllIdle(Local)
  /\ \E k \in MonitorPosts(out[Local]) : out[Local][k].status = "idle"

\* C9: at most one idle-decay timeout is pending in a process, however often
\* the listeners were registered, and the decay callback runs at most once
\* between two qualifying events.
C9_SingleIdleTimer ==
  \A i \in Inst : /\ Cardinality(timers[i]) <= 1
                  /\ decays[i] <= 1
                  /\ timers[i] # {} => \E t \in timers[i] : t.id = idleTimer[i]

\* an event handled by listeners registered twice left one timeout pending
C9_Witness ==
  /\ registrations[Local] = 2 /\ lastEvent.inst = Local
  /\ Cardinality(timers[Local]) = 1

\* the monitor posts agentStatus for an agent only when the state differs
\* from the agent's state, and an event that maps to the state every agent
\* has posts nothing and reschedules the idle timeout
PostsOnlyChanges ==
  \A i \in Inst :
    /\ \A k \in MonitorPosts(out'[i]) :
         /\ out'[i][k].id \in Roster(i)
         /\ agents[i][out'[i][k].id] # out'[i][k].status
    /\ (lastEvent'.inst = i /\ \A a \in Roster(i) : agents[i][a] = lastEvent'.state) =>
         /\ out'[i] = <<>>
         /\ \E t \in timers'[i] : t.id = idleTimer'[i] /\ t.left = TEXT_IDLE_DELAY_MS

\* C10 as stated: the monitor posts only changes, and two consecutive
\* agentStatus messages of the monitor for one agent never carry the same
\* status.
C10_NoRepeatedStatus ==
  [][/\ PostsOnlyChanges
     /\ \A i \in Inst : \A k \in MonitorPosts(out'[i]) :
          lastMon[i][out'[i][k].id].status # out'[i][k].status]_vars

\* C10 amended: the monitor posts only changes, and two consecutive
\* agentStatus messages of the monitor for one agent carry the same status
\* only when restoreAgents reset that agent to idle between them.
C10_NoRepeatedStatusUnlessRestored ==
  [][/\ PostsOnlyChanges
     /\ \A i \in Inst : \A k \in MonitorPosts(out'[i]) :
          lastMon[i][out'[i][k].id].status = out'[i][k].status
            => lastMon[i][out'[i][k].id].restored]_vars

\* an event that maps to the state the agents already have posted nothing
C10_Witness ==
  /\ lastEvent.inst = Local /\ out[Local] = <<>>
  /\ Roster(Local) # {} /\ \A a \in Roster(Local) : agents[Local][a] = lastEvent.state
  /\ \E a \in Roster(Local) : lastMon[Local][a].status = lastEvent.state

----------------------------------------------------------------------------
(* Activity events: properties *)

\* after the step every agent of i has `state` and the timeout idleTimer
\* names is pending with the whole idle window ahead
BroadcastAndRescheduled(i, state) ==
  /\ \A a \in DOMAIN agents'[i] : agents'[i][a] = state
  /\ \E t \in timers'[i] : t.id = idleTimer'[i] /\ t.left = TEXT_IDLE_DELAY_MS

TextInsertions == {e \in Events : /\ e.kind = "textDocument"
                                  /\ \E k \in 1..Len(e.lens) : e.lens[k] > 0}

\* C11: after a text change that inserts text every agent of the roster is
\* typing and the idle-decay timer has been rescheduled.
C11_InsertionMeansTyping ==
  [][\A i \in Inst : \A e \in TextInsertions :
       ActivityEvent(i, e) => BroadcastAndRescheduled(i, "typing")]_vars

\* a text insertion left a roster of two typing with the timeout pending
C11_Witness ==
  /\ lastEvent = [inst |-> Local, state |-> "typing"]
  /\ Cardinality(Roster(Local)) = 2
  /\ \A a \in Roster(Local) : agents[Local][a] = "typing"
  /\ \E t \in timers[Local] : t.id = idleTimer[Local] /\ t.left = TEXT_IDLE_DELAY_MS

FocusOrLongSelections ==
  {e \in Events : \/ e.kind \in {"tabs", "activeEditor"}
                  \/ /\ e.kind = "selection"
                     /\ \E k \in 1..Len(e.sels) :
                          e.sels[k][2] - e.sels[k][1] > SELECTION_LINE_THRESHOLD}

\* C12: after a tab change, an active-editor change or a selection change
\* with a selection of more than 10 lines every agent of the roster is
\* thinking and the idle-decay timer has been rescheduled.
C12_FocusMeansThinking ==
  [][\A i \in Inst : \A e \in FocusOrLongSelections :
       ActivityEvent(i, e) => BroadcastAndRescheduled(i, "thinking")]_vars

\* such an event made the agents thinking and the monitor posted it
C12_Witness ==
  /\ lastEvent = [inst |-> Local, state |-> "thinking"]
  /\ Roster(Local) # {}
  /\ \A a \in Roster(Local) : /\ agents[Local][a] = "thinking"
                              /\ lastMon[Local][a].status = "thinking"
  /\ \E k \in MonitorPosts(out[Local]) : out[Local][k].status = "thinking"

TerminalEvents == {e \in Events : e.kind \in {"activeTerminal", "terminalOutput"}}

\* C13: after every change of the active terminal and every terminal output
\* every agent of the roster is in state terminal and the idle-decay timer has
\* been rescheduled.
C13_TerminalMeansTerminal ==
  [][\A i \in Inst : \A e \in TerminalEvents :
       ActivityEvent(i, e) => BroadcastAndRescheduled(i, "terminal")]_vars

\* the state the surface was told last for an agent: idle when it was created
\* or restored since the monitor's last message
ToldState(mon) == IF mon.restored \/ mon.status = "" THEN "idle" ELSE mon.status

\* the step handles a qualifying event or runs the decay callback in i
MonitorStep(i) == lastEvent'.inst = i \/ decays'[i] > decays[i]

\* C14: the agentStatus messages of the monitor for an agent are that agent's
\* state changes in the order of the events and decays that caused them: the
\* step of an event or decay posts, for every agent whose state it changed,
\* exactly one message carrying the new state, and posts nothing else, so that
\* the message posted last for an agent always carries its current state.
C14_StatusFollowsEvents ==
  [][\A i \in Inst :
       /\ MonitorStep(i) =>
            \A a \in DOMAIN agents[i] :
              agents'[i][a] # agents[i][a] =>
                Cardinality({k \in MonitorPosts(out'[i]) : out'[i][k].id = a}) = 1
       /\ \A k \in MonitorPosts(out'[i]) :
            /\ MonitorStep(i)
            /\ out'[i][k].id \in DOMAIN agents[i]
            /\ agents[i][out'[i][k].id] # out'[i][k].status
            /\ agents'[i][out'[i][k].id] = out'[i][k].status
       /\ \A a \in DOMAIN agents'[i] : agents'[i][a] = ToldState(lastMon'[i][a])]_vars

\* the decay callback posted idle for each of two agents, in roster order
C14_Witness ==
  /\ decays[Local] = 1
  /\ out[Local] = <<AgentStatus(1, "idle", "monitor"), AgentStatus(2, "idle", "monitor")>>
  /\ \A a \in Roster(Local) : agents[Local][a] = "idle"

----------------------------------------------------------------------------
(* The roster over sessions: properties *)

\* C15: the id addAgent assigns is higher than every id assigned since the
\* persisted roster was last empty, so ids increase strictly and none is
\* assigned twice while agents remain; also after a new provider has restored
\* the roster from the persisted ids.
C15_IdsIncreaseNoReuse ==
  [][\A i \in Inst :
       (AddAgent(i) /\ RosterLoaded(i)) => nextAgentId[i] > highestId[i]]_vars

\* C16: the roster survives the closing of the panel.  dispose leaves the
\* ids of the roster in the workspace state, and the webviewReady handled by
\* a provider whose map is empty puts exactly the persisted ids into the
\* roster, each of them idle.
C16_ReopenRestoresRoster ==
  [][\A i \in Inst :
       /\ (Dispose(i) /\ agents[i] # NoAgents) => persisted'[i] = DOMAIN agents[i]
       /\ (WebviewReady(i, NoAssetsRoot) /\ agents[i] = NoAgents) =>
            /\ DOMAIN agents'[i] = persisted[i]
            /\ \A a \in DOMAIN agents'[i] : agents'[i][a] = "idle"]_vars

\* C17: an id leaves the persisted roster only in the step that handles
\* closeAgent for that id.
C17_OnlyCloseAgentRemoves ==
  [][\A i \in Inst : \A id \in persisted[i] \ persisted'[i] : CloseAgent(i, id)]_vars

----------------------------------------------------------------------------
(* The load sequence of webviewReady: properties *)

Posted(msgs, type) == {k \in 1..Len(msgs) : msgs[k].type = type}

LoaderMessage ==
  [chars |-> "characterSpritesLoaded", floors |-> "floorTilesLoaded",
   walls |-> "wallTilesLoaded", furniture |-> "furnitureAssetsLoaded"]

\* the cell of the wall sheet a sprite was cut from
SheetCell(sprite) == <<sprite.ox \div WALL_PIECE_WIDTH, sprite.oy \div WALL_PIECE_HEIGHT>>

\* C22: the wall palette sent to the surface has exactly 16 entries; the
\* entry at index M is the piece that begins at the corner of the sheet cell
\* (M mod 4, M div 4), and the entries cover the 4 x 4 cells one to one.
C22_WallPaletteBySheetCell ==
  \A i \in Inst : \A k \in Posted(out[i], "wallTilesLoaded") :
    LET sprites == out[i][k].sprites
    IN  /\ Len(sprites) = 16
        /\ \A m \in 0..15 :
             /\ SheetCell(sprites[m + 1]) = <<m % 4, m \div 4>>
             /\ sprites[m + 1].ox % WALL_PIECE_WIDTH = 0
             /\ sprites[m + 1].oy % WALL_PIECE_HEIGHT = 0
        /\ {SheetCell(sprites[m]) : m \in 1..Len(sprites)} = (0..3) \X (0..3)
        /\ \A m, n \in 1..Len(sprites) :
             SheetCell(sprites[m]) = SheetCell(sprites[n]) => m = n

\* a load sequence has posted the wall palette
C22_Witness ==
  /\ Posted(out[Local], "wallTilesLoaded") # {}
  /\ Posted(out[Local], "layoutLoaded") # {}

\* C18: whatever combination of assets is missing or malformed, the load
\* sequence of webviewReady posts the message of every loader whose own asset
\* is valid, once, and of no other loader; it then posts layoutLoaded, after
\* every asset message, and the layout watcher runs.
C18_FailedAssetDropsOnlyItsMessage ==
  [][\A i \in Inst : \A a \in AssetSets :
       (Posted(out'[i], "settingsLoaded") # {} /\ WebviewReady(i, a)) =>
         /\ a.root => \A l \in DOMAIN LoaderMessage :
               Cardinality(Posted(out'[i], LoaderMessage[l]))
                 = IF a[l] = "ok" THEN 1 ELSE 0
         /\ Cardinality(Posted(out'[i], "layoutLoaded")) = 1
         /\ \A k \in Posted(out'[i], "layoutLoaded") :
               \A l \in DOMAIN LoaderMessage :
                 \A m \in Posted(out'[i], LoaderMessage[l]) : m < k
         /\ watching'[i]]_vars

\* a sequence with broken character sprites and floor tiles has posted the
\* wall tiles and the furniture, then the layout, and the watcher runs
C18_Witness ==
  /\ Posted(out[Local], "characterSpritesLoaded") = {}
  /\ Posted(out[Local], "floorTilesLoaded") = {}
  /\ Posted(out[Local], "wallTilesLoaded") # {}
  /\ Posted(out[Local], "furnitureAssetsLoaded") # {}
  /\ Posted(out[Local], "layoutLoaded") # {}
  /\ out[Local][Len(out[Local])].type = "layoutLoaded"
  /\ watching[Local]

----------------------------------------------------------------------------
(* The placement validator: properties *)

Stackable(p) == Catalog[p.type].canPlaceOnSurfaces

Intersect(p, q) == FootprintOf(p) \cap FootprintOf(q) # {}

\* the placements of furn, other than u, that share a tile with u
Sharing(furn, u) == {w \in (DOMAIN furn) \ {u} : Intersect(furn[u], furn[w])}

Rejected(msgs) == Posted(msgs, "placementRejected") # {}

OutOfBounds(lay, p) == ~InBounds(lay, FootprintOf(p))

\* a free tile under piece p is neither floor nor a wall p may hang on
WrongSurface(lay, furn, p) ==
  \E t \in FootprintOf(p) :
    /\ InBounds(lay, {t}) /\ Occupants(furn, t) = {}
    /\ ~IsFloor(TileAt(lay, t))
    /\ ~(Catalog[p.type].canPlaceOnWalls /\ TileAt(lay, t) = "WALL")

\* piece p overlays a placement it may not be stacked on: it is not
\* stackable, or it would lie on two placements or on a stack
Collides(furn, p) ==
  LET under == UNION {Occupants(furn, t) : t \in FootprintOf(p)}
  IN  \/ under # {} /\ (~Stackable(p) \/ Cardinality(under) > 1)
      \/ \E t \in FootprintOf(p) : Cardinality(Occupants(furn, t)) > 1

Violates(lay, furn, pieces) ==
  \E k \in 1..Len(pieces) :
    \/ OutOfBounds(lay, pieces[k])
    \/ WrongSurface(lay, furn, pieces[k])
    \/ Collides(furn, pieces[k])

\* the pieces a move of uid puts down, and the furniture they are put over
MovedPieces(furn, uid, col, row) ==
  LET uids == GroupOf(furn, uid)
  IN  [k \in 1..Len(uids) |->
         [type |-> furn[uids[k]].type,
          col |-> furn[uids[k]].col + col - furn[uid].col,
          row |-> furn[uids[k]].row + row - furn[uid].row]]

Unmoved(furn, uid) ==
  Without(furn, {GroupOf(furn, uid)[k] : k \in 1..Len(GroupOf(furn, uid))})

\* C20: on every layout the editor reaches, a place or a move of which some
\* piece, a member of a fixed group included, is out of bounds, on a wrong
\* surface or in collision is rejected and returns the layout, tiles and
\* furniture, as it was before the call.
C20_RejectedLeavesLayout ==
  \A i \in Inst :
    LET lay == surface[i]
        furn == lay.furniture
    IN  lay # NoLayout =>
          /\ \A type \in PlaceableTypes :
               \A col \in AnchorCols(lay) : \A row \in AnchorRows(lay) :
                 Violates(lay, furn, Pieces(type, col, row))
                   => Place(lay, type, col, row) = [ok |-> FALSE, layout |-> lay]
          /\ \A uid \in DOMAIN furn :
               \A col \in AnchorCols(lay) : \A row \in AnchorRows(lay) :
                 Violates(lay, Unmoved(furn, uid), MovedPieces(furn, uid, col, row))
                   => Move(lay, uid, col, row) = [ok |-> FALSE, layout |-> lay]

\* an operation on a furnished layout that holds a group has been rejected
C20_Witness ==
  /\ Rejected(out[Local])
  /\ \E u \in DOMAIN surface[Local].furniture : surface[Local].furniture[u].anchor

----------------------------------------------------------------------------
(* The auto-tiling engine: properties *)

\* the four cardinal neighbours with their bits
Cardinals ==
  {[bit |-> 1, dc |-> 0, dr |-> -1], [bit |-> 2, dc |-> 1, dr |-> 0],
   [bit |-> 4, dc |-> 0, dr |-> 1], [bit |-> 8, dc |-> -1, dr |-> 0]}

RECURSIVE SumBits(_)
SumBits(S) ==
  IF S = {} THEN 0 ELSE LET n == CHOOSE n \in S : TRUE IN n.bit + SumBits(S \ {n})

\* the cardinal neighbours of tile t that lie in the grid and are walls
WallNeighbours(lay, t) ==
  {n \in Cardinals :
     /\ <<t[1] + n.dc, t[2] + n.dr>> \in (0..(lay.cols - 1)) \X (0..(lay.rows - 1))
     /\ TileAt(lay, <<t[1] + n.dc, t[2] + n.dr>>) = "WALL"}

\* C21: for every wall tile the computed bitmask is the sum of N=1, E=2,
\* S=4, W=8 over exactly its cardinal neighbours that are walls inside the
\* grid; it is 0 for a wall with no such neighbour and 15 for a wall with four.
C21_BitmaskIsSumOfWallNeighbours ==
  \A i \in Inst :
    LET lay == surface[i]
    IN  \A t \in DOMAIN WallIndices(lay) :
          /\ WallIndices(lay)[t] = SumBits(WallNeighbours(lay, t))
          /\ WallNeighbours(lay, t) = {} <=> WallIndices(lay)[t] = 0
          /\ WallNeighbours(lay, t) = Cardinals <=> WallIndices(lay)[t] = 15

\* a grid with a surrounded wall and with a wall at the western edge whose
\* neighbour by index is the wall ending the row above
C21_Witness ==
  LET lay == surface[Local]
      idx == WallIndices(lay)
  IN  /\ \E t \in DOMAIN idx : idx[t] = 15
      /\ \E t \in DOMAIN idx :
           /\ t[1] = 0 /\ t[2] > 0 /\ idx[t] < 8
           /\ TileAt(lay, <<lay.cols - 1, t[2] - 1>>) = "WALL"

\* the layout the rendering surface of i builds from the record it holds
Shown(i) == Deserialize(surface[i])

\* C23: a structurally valid layout of the current version that is serialized
\* and loaded again comes back equal in version, cols, rows, tiles, tileColors
\* and furniture, directly and through the shared file into another window.
C23_SerializeLoadRoundTrip ==
  LET lay == surface[Local]
      back == Deserialize(Serialize(lay))
  IN  /\ back.version = lay.version /\ back.cols = lay.cols /\ back.rows = lay.rows
      /\ back.tiles = lay.tiles /\ back.tileColors = lay.tileColors
      /\ DOMAIN back.furniture = DOMAIN lay.furniture
      /\ \A u \in DOMAIN lay.furniture : back.furniture[u] = lay.furniture[u]
      /\ surface[Remote] # NoLayout => Shown(Remote) = back

\* the other window shows the tinted office with its couch group, loaded from
\* the shared file
C23_Witness ==
  /\ surface[Local] = TintedOffice
  /\ file = Serialize(TintedOffice)
  /\ surface[Remote] = file
  /\ 1 \notin DOMAIN Shown(Remote).furniture
  /\ \E u \in DOMAIN Shown(Remote).furniture : Shown(Remote).furniture[u].anchor

\* what loading the record rec must give: the current version, tileColors of
\* length cols*rows, all neutral where rec has none, tiles and furniture of rec
MigratedFrom(rec, lay) ==
  /\ lay.version = CURRENT_VERSION
  /\ Len(lay.tileColors) = rec.cols * rec.rows
  /\ ~rec.hasTileColors => \A k \in 1..Len(lay.tileColors) : lay.tileColors[k] = 0
  /\ lay.tiles = rec.tiles /\ lay.furniture = rec.furniture

\* C24: a record with version 0 and no tileColors loads successfully: the
\* loader migrates it as MigratedFrom says, and an importLayout that picks
\* such a record posts layoutLoaded with a layout that loads so.
C24_VersionZeroLoads ==
  [][/\ MigratedFrom(OldVersion, LoadLayout(OldVersion))
     /\ \A i \in Inst :
          ImportLayout(i, [kind |-> "record", rec |-> OldVersion])
            => \E k \in Posted(out'[i], "layoutLoaded") :
                 MigratedFrom(OldVersion, LoadLayout(out'[i][k].layout))]_vars

\* C25: a layout produced by the dense office, cozy bedroom or living room
\* preset has cols*rows tiles and as many tileColors, pairwise distinct
\* furniture uids, and every anchor inside the grid on a floor tile.
C25_PresetsKeepLayoutInvariants ==
  \A i \in Inst :
    surface[i] \in {CreatePreset(PresetIds[k]) : k \in 2..Len(PresetIds)} =>
      LET lay == surface[i]
          furn == lay.furniture
      IN  /\ Len(lay.tiles) = lay.cols * lay.rows
          /\ Len(lay.tileColors) = lay.cols * lay.rows
          /\ \A j, k \in DOMAIN furn : j # k => furn[j].uid # furn[k].uid
          /\ \A k \in DOMAIN furn :
               /\ InBounds(lay, {<<furn[k].col, furn[k].row>>})
               /\ IsFloor(TileAt(lay, <<furn[k].col, furn[k].row>>))

\* the cozy bedroom, with its void tiles, was applied from the panel
C25_Witness ==
  /\ surface[Local] = CreateCozyBedroomPreset
  /\ \E k \in DOMAIN surface[Local].tiles : surface[Local].tiles[k] = "VOID"
  /\ panel[Local].clicks >= 2

\* the events that do not qualify: a document change that inserts no text, a
\* selection change whose line spans sum to at most 10, a change of the active
\* terminal to none
NonQualifying ==
  {e \in Events :
     \/ e.kind = "textDocument" /\ \A k \in 1..Len(e.lens) : e.lens[k] = 0
     \/ e.kind = "selection" /\ SumSpan(e.sels) <= 10
     \/ e.kind = "activeTerminal" /\ ~e.term}

\* C26: an editor event that does not qualify changes no agent's
\* activityState, posts no message and leaves the idle timeout as it is,
\* neither cancelled nor set again.
C26_NonQualifyingEventIgnored ==
  [][\A i \in Inst : \A e \in NonQualifying :
       ActivityEvent(i, e) =>
         /\ agents'[i] = agents[i]
         /\ out'[i] = <<>>
         /\ idleTimer'[i] = idleTimer[i] /\ timers'[i] = timers[i]]_vars

\* listeners registered once, an agent that is not idle and the idle timeout
\* pending, after a step that posted nothing and observed no qualifying event:
\* only an event that does not qualify leads to such a state
C26_Witness ==
  /\ registrations[Local] = 1
  /\ \E a \in Roster(Local) : agents[Local][a] # "idle"
  /\ \E t \in timers[Local] : t.id = idleTimer[Local]
  /\ out[Local] = <<>> /\ lastEvent = NoEvent

\* the picks the claim names: a file that cannot be read or parsed, a record
\* whose version is not 1, a record whose tiles field is not an array
BadPicks ==
  {p \in ImportPicks :
     \/ p.kind = "unreadable"
     \/ p.kind = "record" /\ (p.rec.version # 1 \/ ~p.rec.tilesIsArray)}

\* C27: an importLayout whose file cannot be read or parsed, or whose record
\* has a version other than 1 or tiles that are no array, shows an error
\* notice and does nothing else: no write to the shared file is begun, the
\* self-write marker stays as it is, and no layoutLoaded is posted.
C27_BadImportRejected ==
  [][\A i \in Inst : \A p \in BadPicks :
       (out'[i] # <<>> /\ notes' = notes /\ ImportLayout(i, p)) =>
         /\ out'[i] = <<Notice("showErrorMessage")>>
         /\ writes' = writes /\ file' = file /\ begun' = begun
         /\ skipNext' = skipNext
         /\ surface' = surface
         /\ Posted(out'[i], "layoutLoaded") = {}]_vars

\* an import was refused in a window whose marker is clear, while the shared
\* file holds a saved layout and a write of the other window is in flight
C27_Witness ==
  /\ out[Local] = <<Notice("showErrorMessage")>>
  /\ ~skipNext[Local]
  /\ file \in SavePayloads
  /\ \E w \in writes : w.by # Local

\* C28: closeAgent for an id that is not in the roster leaves the roster and
\* the persisted roster as they are; closeAgent for an id of the roster takes
\* exactly that id out of both, and every other agent keeps its id and its
\* activityState.
C28_CloseAgentRemovesOnlyItsId ==
  [][\A i \in Inst : \A id \in 1..(MaxAgentId + 1) :
       (Posted(out'[i], "agentClosed") # {} /\ CloseAgent(i, id)) =>
         IF id \notin Roster(i)
           THEN agents'[i] = agents[i] /\ persisted'[i] = persisted[i]
           ELSE /\ DOMAIN agents'[i] = Roster(i) \ {id}
                /\ persisted'[i] = persisted[i] \ {id}
                /\ \A a \in Roster(i) \ {id} : agents'[i][a] = agents[i][a]]_vars

\* agent 1 was closed while agent 2, which is not idle, stays in the roster
\* and in the persisted roster
C28_Witness ==
  /\ out[Local] = <<AgentMsg("agentClosed", 1)>>
  /\ Roster(Local) = {2} /\ agents[Local][2] # "idle"
  /\ persisted[Local] = {2}

\* the step completes a write to the shared file
WriteCompleted == writes' # writes /\ begun' = begun

\* C29: a provider has at most one layout watcher, and has one exactly while
\* its layoutWatcher field is set; a webviewReady handled again creates no
\* second one, so a completed write to the shared file notifies a window at
\* most once and a notification posts at most one layoutLoaded; after dispose
\* the provider has no watcher.
C29_AtMostOneWatcher ==
  [][\A i \in Inst :
       /\ watchers'[i] <= 1 /\ (watching'[i] <=> watchers'[i] = 1)
       /\ WriteCompleted => Len(notes'[i]) <= Len(notes[i]) + 1
       /\ Cardinality(WatcherPushes(out'[i])) <= 1
       /\ WatcherPushes(out'[i]) # {} => notes'[i] = Tail(notes[i])
       /\ Dispose(i) => watchers'[i] = 0 /\ ~watching'[i]]_vars

\* webviewReady was handled by a provider whose watcher already had a change
\* notification pending: the watcher is still the only one
C29_Witness ==
  /\ \E k \in Posted(out[Remote], "layoutLoaded") : out[Remote][k].by = "sendLayout"
  /\ notes[Remote] # <<>>
  /\ watchers[Remote] = 1 /\ watching[Remote]

\* the preset the step applied, "" when it applied none
AppliedPreset(i) ==
  IF \E k \in Posted(out'[i], "onLoadPreset") : TRUE
    THEN out'[i][CHOOSE k \in Posted(out'[i], "onLoadPreset") : TRUE].status
    ELSE ""

\* the step is a click in the panel of i
Clicked(i) == panel'[i].clicks = panel[i].clicks + 1

====
